---------------------------- MODULE Spec2Model ----------------------------
(***************************************************************************)
(* State-machine model of the streaming TTS player:                        *)
(*   - CosyVoiceStreamingPlayer  (src/cosyvoice_stream_player.py), the     *)
(*     session orchestrator, its callback sink and its asynchronous queue; *)
(*   - SpeechSynthesizer (src/lightweight_tts/speech_synthesizer.py), the  *)
(*     transport session that drives the duplex websocket protocol.        *)
(*                                                                         *)
(* Python threads are preemptible between statements, so every method that *)
(* reads or writes shared state is cut into one action per statement       *)
(* group; the program counter of each thread is pc[t].  Coroutines of the  *)
(* asyncio queue run on one event loop and are cut at the points where     *)
(* they can really suspend.                                                *)
(***************************************************************************)
EXTENDS Integers, Sequences, FiniteSets, TLC

\* ------------------------------------------------------------- bounds
MaxSessions == 2      \* SpeechSynthesizer objects created in one behaviour
MaxSends    == 1      \* send_text calls of one caller inside one session
MaxFrames   == 2      \* binary frames the remote sends in one behaviour
MaxFaults   == 1      \* timeouts, transport and process faults injected
MaxInterrupts == 1    \* interrupt() calls that find a session
MaxCalls    == 3      \* enqueue calls made in one behaviour
MaxTimed    == 2      \* of these, texts with a deadline or queued late
MaxQueued   == 11     \* texts put into the sync queue in one behaviour
MaxStops    == 1      \* stop_queue calls made in one behaviour
MaxTime     == 4      \* seconds the clock advances in one behaviour
MaxSent     == 4      \* frames a client sends on one SpeechSynthesizer
MaxObjects  == 1      \* SpeechSynthesizer objects a client constructs
MaxItems    == 1      \* texts queued for a consumer whose cycle is followed
MaxSpawns   == 3      \* sox processes spawned in one behaviour

Callers == {"t1", "t2"}          \* threads that call start/send/finish
Sids    == 1 .. MaxSessions      \* identities of SpeechSynthesizer objects
FrameLens == {1, 2}               \* byte lengths of the binary frames
Enqueuers == {"e1", "e2"}         \* coroutines that call the queue API
Collectors == {"k1", "k2"}        \* collect_and_enqueue tasks (k<i> of e<i>)
Tasks == Enqueuers \cup Collectors
QueueSizes == {1, 2}              \* maxsize arguments of start_queue
SyncMaxlen == 10                  \* deque(maxlen=...) of the sync queue
Timeouts == {0, 1}                \* timeout arguments: 0 for None, or seconds
DefaultMaxsize == 1               \* start_queue(maxsize=1)
TTL == 3                          \* seconds a queued item stays valid
InitialVolume == 50               \* VolumeController._volume at construction
MinVolume == 5                    \* the least volume change_volume sets
MaxVolume == 35                   \* the greatest volume change_volume sets
Percents == {5 * k : k \in -2 .. 22} \* arguments of set_volume
Sinkers == {"caller", "reader", "control"}   \* threads that use the AudioPlayer
Changes == -45 .. 45              \* arguments of change_volume

VARIABLES
    \* --- CosyVoiceStreamingPlayer
    session_event,      \* threading.Event _session_event
    interrupt_event,    \* threading.Event _interrupt_event
    start_time,         \* _start_time: "None" or "set"
    metrics,            \* PlaybackMetrics: first_audio_delay, audio_bytes
    synthesizer,        \* self.synthesizer: 0 (None) or a Sid
    save_audio,         \* constructor flag
    enable_audio_playback, \* constructor flag
    \* --- StreamingCallback (one object shared by all sessions)
    audio_data,         \* list of saved chunks, as <<sid, len>> entries
    total_audio_bytes,
    saved_files,        \* number of wav files written by _save_audio_file
    \* --- AudioPlayer
    sox,                \* sox_process: "none", "alive" or "dead"
    sink,               \* everything written to sox stdin, in order
    \* --- SpeechSynthesizer objects
    nsyn,               \* number of objects constructed so far
    syn,                \* the fields of each object
    rem,                \* what the remote task of each object has emitted
    rd,                 \* the websocket read thread of each object
    nframes,            \* binary frames sent by the remote so far
    nfaults,            \* faults injected so far
    \* --- threads
    pc, obj, fault, sends,
    ipc, nint,          \* the thread that calls interrupt()
    \* --- the async queue and the event loop that runs its coroutines
    async_queue,        \* _async_queue: made (not None), maxsize, items
    async_queue_lock,   \* _async_queue_lock is held
    running,            \* the task the event loop is running, or "none"
    epc, earg, after,   \* position, arguments and continuation of each task
    putters,            \* tasks suspended in Queue.put, oldest first
    cpc, cur,           \* _async_queue_loop: position and the item it took
    nstops,             \* stop_queue calls so far
    ncalls,             \* enqueue calls so far (the identity of a payload)
    now,                \* time.time(), in seconds
    snap, nevict,       \* history: queue at the full check, items evicted
    \* --- the sync queue and its worker thread (thread "t1")
    sync_queue,         \* _sync_queue: (timestamp, text, timeout) entries
    qarg,               \* the timeout argument of each tts_with_queue call
    wpc, witem,         \* _sync_consumer_loop: position and the item it took
    nq,                 \* texts queued so far (the identity of a text)
    played, expired,    \* history: texts played, texts dropped at deadline
    \* --- tts_stream
    chk,                \* chunks of its text sequence each caller has taken
    own,                \* history: the session each caller started last
    lat,                \* history: sessions whose audio set the latency
    delivered,          \* history: callbacks raised for each object, in order
    asked,              \* history: the sessions interrupt() was called on (the
                        \* one being constructed when a start is under way)
    \* --- AudioPlayer, operation by operation
    sox_process,        \* the process self.sox_process refers to, 0 for None
    procs,              \* the sox processes that are running
    nspawn,             \* processes spawned so far
    sink_lock,          \* the thread that holds AudioPlayer._lock, or "none"
    spc,                \* position of each thread inside the AudioPlayer
    tearing,            \* the process a reset or close is tearing down, or 0
    \* --- close() and the worker flag
    sync_consumer_running,  \* _sync_consumer_running
    clpc,               \* the thread that calls close(): its position
    ntasks,             \* consumer tasks created and not cancelled
    \* --- VolumeController
    volume,             \* _volume, a percentage
    system_volume,      \* the last value handed to termux-volume, or -1
    varg, vresult,      \* the last change_volume call and what it returned
    \* --- history
    live,               \* sessions opened and not closed/interrupted since
    clean,              \* no step of interrupt() since the last start began
    state               \* protocol state of each object

evars == <<session_event, interrupt_event>>
mvars == <<start_time, metrics, synthesizer>>
fvars == <<save_audio, enable_audio_playback>>
pvars == <<evars, mvars, fvars>>
cvars == <<audio_data, total_audio_bytes, saved_files>>
avars == <<sox, sink>>
qvars == <<nsyn, syn, rem, rd, nframes>>
svars == <<qvars, nfaults>>
tvars == <<pc, obj, fault, sends>>
ivars == <<ipc, nint>>
hvars == <<live, clean, state>>
lvars == <<async_queue, async_queue_lock, running, epc, earg, after, putters>>
kvars == <<cpc, cur>>
zvars == <<lvars, kvars, ncalls, nstops, now, snap, nevict>>
wvars == <<wpc, witem>>
yvars == <<sync_queue, qarg, wvars, nq, played, expired>>
uvars == <<volume, system_volume, varg, vresult>>
xvars == <<chk, own, lat, delivered, asked>>
bvars == <<sox_process, procs, nspawn, sink_lock, spc, tearing>>
dvars == <<bvars, sync_consumer_running, clpc, ntasks>>
vars  == <<pvars, cvars, avars, svars, tvars, ivars, hvars, zvars, yvars,
           uvars, xvars, dvars>>

\* ------------------------------------------------------------ helpers
NewMetrics == [first_audio_delay |-> "None", audio_bytes |-> 0]

NewSynth == [is_first |-> TRUE, is_started |-> FALSE, stopped |-> FALSE,
             start_event |-> FALSE, complete_event |-> FALSE,
             ws |-> "none", sent |-> <<>>, recv_audio_length |-> 0,
             waiters |-> 0]

Terminal == {"Completed", "Failed", "Cancelled"}

\* The protocol state of object s moves to new unless it is already terminal.
Move(s, new) ==
    IF s \in Sids /\ state[s] \notin Terminal
    THEN [state EXCEPT ![s] = new] ELSE state

Has(seq, x) == \E i \in 1 .. Len(seq) : seq[i] = x


\* self._async_queue = None, and the placeholders of unset locals.
NoQueue == [made |-> FALSE, maxsize |-> 0, items |-> <<>>]
NoArg == [id |-> 0, kind |-> "none", maxsize |-> 0, ts |-> 0]
NoItem == [ts |-> 0, id |-> 0, kind |-> "none"]

NoText == [ts |-> 0, id |-> 0, timeout |-> 0]

\* No change_volume call has returned since the last set_volume.
NoVolumeArg == [v |-> 0, c |-> 0]
NoResult == [kind |-> "none", value |-> 0, original |-> 0]

\* An injected fault (a timeout, a transport error, a process failure).
Fault == nfaults < MaxFaults /\ nfaults' = nfaults + 1

\* AudioPlayer.initialize 55-75: spawns sox, or leaves None when Popen
\* fails.  reset (90-102) ends in the same call.
initialize ==
    \/ sox' = "alive" /\ UNCHANGED nfaults
    \/ sox' = "none" /\ Fault

\* ---------------------------------------------------------------- Init
InitState ==
    /\ session_event = FALSE
    /\ interrupt_event = FALSE
    /\ start_time = "None"
    /\ metrics = NewMetrics
    /\ synthesizer = 0
    /\ audio_data = <<>>
    /\ total_audio_bytes = 0
    /\ saved_files = 0
    /\ sox = IF enable_audio_playback THEN "alive" ELSE "none"
    /\ sink = <<>>
    /\ nsyn = 0
    /\ syn = [s \in Sids |-> NewSynth]
    /\ rem = [s \in Sids |-> "new"]
    /\ rd = [s \in Sids |-> [pc |-> "idle", len |-> 0]]
    /\ nframes = 0
    /\ nfaults = 0
    /\ pc = [t \in Callers |-> "idle"]
    /\ obj = [t \in Callers |-> 0]
    /\ fault = [t \in Callers |-> "none"]
    /\ sends = [t \in Callers |-> 0]
    /\ ipc = "idle"
    /\ nint = 0
    /\ live = {}
    /\ clean = TRUE
    /\ state = [s \in Sids |-> "Idle"]
    /\ async_queue = NoQueue
    /\ async_queue_lock = FALSE
    /\ running = "none"
    /\ epc = [x \in Tasks |-> "idle"]
    /\ earg = [x \in Tasks |-> NoArg]
    /\ after = [x \in Tasks |-> "return"]
    /\ putters = <<>>
    /\ cpc = "none"
    /\ cur = NoItem
    /\ ncalls = 0
    /\ nstops = 0
    /\ now = 0
    /\ snap = [x \in Tasks |-> <<>>]
    /\ nevict = 0
    /\ sync_queue = <<>>
    /\ qarg = [t \in Callers |-> 0]
    /\ wpc = "poll"
    /\ witem = NoText
    /\ nq = 0
    /\ played = {}
    /\ expired = {}
    /\ chk = [t \in Callers |-> 0]
    /\ own = [t \in Callers |-> 0]
    /\ lat = {}
    /\ delivered = [s \in Sids |-> <<>>]
    /\ asked = {}
    /\ sox_process = IF enable_audio_playback THEN 1 ELSE 0
    /\ procs = IF enable_audio_playback THEN {1} ELSE {}
    /\ nspawn = IF enable_audio_playback THEN 1 ELSE 0
    /\ sink_lock = "none"
    /\ spc = [th \in Sinkers |-> "idle"]
    /\ tearing = 0
    /\ sync_consumer_running = TRUE
    /\ clpc = "idle"
    /\ ntasks = 0
    /\ volume = InitialVolume
    /\ system_volume = -1
    /\ varg = NoVolumeArg
    /\ vresult = NoResult

\* Playback and saving both enabled: every path of the callback is active.
Init ==
    /\ save_audio = TRUE
    /\ enable_audio_playback = TRUE
    /\ InitState

\* Any configuration of the two constructor flags.
InitAny ==
    /\ save_audio \in BOOLEAN
    /\ enable_audio_playback \in BOOLEAN
    /\ InitState

\* ------------------------------------------------- start_session (367-387)
\* Objects that threads already past the check are about to construct.
Starting == {t \in Callers : pc[t] \in {"ss_set", "ss_clr", "ss_init"}}

\* A thread that is in no method calls start_session: "idle" has no session
\* of its own, "done" has returned from finish_session, "refused" has been
\* answered False by its last start_session.
start_session_call(t) ==
    /\ pc[t] \in {"idle", "done", "refused"}
    /\ pc' = [pc EXCEPT ![t] = "ss_check"]
    /\ UNCHANGED <<dvars, xvars, uvars, yvars, zvars, pvars, cvars, avars, svars, obj, fault, sends, ivars, hvars>>

\* A start_session that resets the timestamp and the metrics before it
\* looks at the session-active flag.
start_session_check_Mut(t) ==
    /\ pc[t] = "ss_check"
    /\ session_event \/ nsyn + Cardinality(Starting) < MaxSessions
    /\ pc' = [pc EXCEPT ![t] = IF session_event THEN "refused" ELSE "ss_set"]
    /\ clean' = IF session_event THEN clean ELSE ipc = "idle"
    /\ start_time' = "None"
    /\ metrics' = NewMetrics
    /\ UNCHANGED <<dvars, xvars, uvars, yvars, zvars, evars, synthesizer, fvars, cvars, avars, svars, obj, fault,
                   sends, ivars, live, state>>

\* lines 369-371: the check; a set flag means a warning and "return False".
start_session_check(t) ==
    /\ pc[t] = "ss_check"
    /\ session_event \/ nsyn + Cardinality(Starting) < MaxSessions
    /\ pc' = [pc EXCEPT ![t] = IF session_event THEN "refused" ELSE "ss_set"]
    /\ clean' = IF session_event THEN clean ELSE ipc = "idle"
    /\ UNCHANGED <<dvars, xvars, uvars, yvars, zvars, pvars, cvars, avars, svars, obj, fault, sends, ivars, live,
                   state>>

\* line 373
start_session_set(t) ==
    /\ pc[t] = "ss_set"
    /\ session_event' = TRUE
    /\ pc' = [pc EXCEPT ![t] = "ss_clr"]
    /\ UNCHANGED <<dvars, xvars, uvars, yvars, zvars, interrupt_event, mvars, fvars, cvars, avars, svars,
                   obj, fault, sends, ivars, hvars>>

\* line 374
start_session_clear(t) ==
    /\ pc[t] = "ss_clr"
    /\ interrupt_event' = FALSE
    /\ pc' = [pc EXCEPT ![t] = "ss_init"]
    /\ UNCHANGED <<dvars, xvars, uvars, yvars, zvars, session_event, mvars, fvars, cvars, avars, svars,
                   obj, fault, sends, ivars, hvars>>

\* lines 375-387: reset of the timestamp and the metrics, construction of
\* the SpeechSynthesizer, "return True".
start_session_init(t) ==
    /\ pc[t] = "ss_init"
    /\ start_time' = "None"
    /\ metrics' = NewMetrics
    /\ nsyn' = nsyn + 1
    /\ synthesizer' = nsyn + 1
    /\ live' = live \cup {nsyn + 1}
    /\ pc' = [pc EXCEPT ![t] = "in_session"]
    /\ sends' = [sends EXCEPT ![t] = 0]
    /\ own' = [own EXCEPT ![t] = nsyn + 1]
    /\ UNCHANGED <<dvars, asked, chk, lat, delivered, uvars, yvars, zvars, evars, fvars, cvars, avars, syn, rem, rd, nframes, nfaults,
                   obj, fault, ivars, clean, state>>

start_session(t) ==
    \/ start_session_call(t)
    \/ start_session_check(t)
    \/ start_session_set(t)
    \/ start_session_clear(t)
    \/ start_session_init(t)

\* A fault leaves the method: the thread holds the exception.
Raise(t, f) ==
    /\ pc' = [pc EXCEPT ![t] = "raised"]
    /\ fault' = [fault EXCEPT ![t] = f]

\* The caller of the faulting method handles the exception and goes on.
caller_catch(t) ==
    /\ pc[t] = "raised"
    /\ pc' = [pc EXCEPT ![t] = "idle"]
    /\ fault' = [fault EXCEPT ![t] = "none"]
    /\ UNCHANGED <<dvars, xvars, uvars, yvars, zvars, pvars, cvars, avars, svars, obj, sends, ivars, hvars>>

\* ----------------------------------------------------- send_text (389-399)
\* lines 391-394: no session is a RuntimeError, an interrupted one a no-op.
send_text_check(t) ==
    /\ pc[t] = "in_session"
    /\ sends[t] < MaxSends
    /\ IF ~session_event
       THEN Raise(t, "RuntimeError") /\ UNCHANGED sends
       ELSE IF interrupt_event
       THEN /\ sends' = [sends EXCEPT ![t] = @ + 1]
            /\ UNCHANGED <<pc, fault>>
       ELSE /\ pc' = [pc EXCEPT ![t] = "st_call"]
            /\ UNCHANGED <<fault, sends>>
    /\ UNCHANGED <<dvars, xvars, uvars, yvars, zvars, pvars, cvars, avars, svars, obj, ivars, hvars>>

\* lines 396-399: the start timestamp of the first call, then
\* self.synthesizer.streaming_call(text) on the object bound at that moment.
send_text_call(t) ==
    /\ pc[t] = "st_call"
    /\ start_time' = "set"
    /\ obj' = [obj EXCEPT ![t] = synthesizer]
    /\ pc' = [pc EXCEPT ![t] = "sc_first"]
    /\ UNCHANGED <<dvars, xvars, uvars, yvars, zvars, evars, metrics, synthesizer, fvars, cvars, avars, svars,
                   fault, sends, ivars, hvars>>

\* streaming_call 405-407 and __start_stream 342-366: the first call of an
\* object resets it and creates the websocket and its read thread.
streaming_call_first(t) ==
    /\ pc[t] = "sc_first"
    /\ LET s == obj[t] IN
       IF syn[s].is_first
       THEN IF syn[s].is_started
            THEN /\ syn' = [syn EXCEPT ![s].is_first = FALSE,
                                       ![s].stopped = FALSE]
                 /\ Raise(t, "InvalidTask")
                 /\ UNCHANGED state
            ELSE /\ syn' = [syn EXCEPT ![s].is_first = FALSE,
                                       ![s].stopped = FALSE,
                                       ![s].ws = "connecting"]
                 /\ state' = Move(s, "Connecting")
                 /\ pc' = [pc EXCEPT ![t] = "sc_connect"]
                 /\ UNCHANGED fault
       ELSE /\ pc' = [pc EXCEPT ![t] = "sc_submit"]
            /\ UNCHANGED <<syn, fault, state>>
    /\ UNCHANGED <<dvars, xvars, uvars, yvars, zvars, pvars, cvars, avars, nsyn, rem, rd, nframes, nfaults, obj, sends,
                   ivars, live, clean>>

\* __start_stream 367-379: the socket connects in time and the run-task
\* frame is sent.
start_stream_connect(t) ==
    /\ pc[t] = "sc_connect"
    /\ LET s == obj[t] IN
       /\ syn[s].ws = "connecting"
       /\ syn' = [syn EXCEPT ![s].ws = "open",
                             ![s].sent = Append(@, "run")]
    /\ pc' = [pc EXCEPT ![t] = "sc_wait"]
    /\ UNCHANGED <<dvars, xvars, uvars, yvars, zvars, pvars, cvars, avars, nsyn, rem, rd, nframes, nfaults, obj, fault,
                   sends, ivars, hvars>>

\* __start_stream 371-378: no connection within 5 s.
start_stream_connect_timeout(t) ==
    /\ pc[t] = "sc_connect"
    /\ Fault
    /\ Raise(t, "TimeoutError:connect")
    /\ state' = Move(obj[t], "Failed")
    /\ UNCHANGED <<dvars, xvars, uvars, yvars, zvars, pvars, cvars, avars, qvars, obj, sends, ivars, live, clean>>

\* __start_stream 380-382: start_event was set within 10 s.
start_stream_started(t) ==
    /\ pc[t] = "sc_wait"
    /\ LET s == obj[t] IN
       /\ syn[s].start_event
       /\ syn' = [syn EXCEPT ![s].is_started = TRUE]
       /\ state' = Move(s, "Started")
    /\ pc' = [pc EXCEPT ![t] = "sc_open"]
    /\ UNCHANGED <<dvars, xvars, uvars, yvars, zvars, pvars, cvars, avars, nsyn, rem, rd, nframes, nfaults, obj, fault,
                   sends, ivars, live, clean>>

\* __start_stream 380-381: start_event.wait(10) returned False.
start_stream_start_timeout(t) ==
    /\ pc[t] = "sc_wait"
    /\ ~syn[obj[t]].start_event
    /\ Fault
    /\ Raise(t, "TimeoutError:start")
    /\ state' = Move(obj[t], "Failed")
    /\ UNCHANGED <<dvars, xvars, uvars, yvars, zvars, pvars, cvars, avars, qvars, obj, sends, ivars, live, clean>>

\* __start_stream 383-384 calls StreamingCallback.on_open (193-201).
on_open(t) ==
    /\ pc[t] = "sc_open"
    /\ IF enable_audio_playback /\ sox = "none"
       THEN initialize
       ELSE UNCHANGED <<sox, nfaults>>
    /\ audio_data' = <<>>
    /\ total_audio_bytes' = 0
    /\ pc' = [pc EXCEPT ![t] = "sc_submit"]
    /\ delivered' = [delivered EXCEPT ![obj[t]] = Append(@, "on_open")]
    /\ UNCHANGED <<dvars, asked, chk, own, lat, uvars, yvars, zvars, pvars, saved_files, sink, qvars, obj, fault, sends, ivars,
                   hvars>>

\* __submit_text 386-393: the continue-task frame.
submit_text(t) ==
    /\ pc[t] = "sc_submit"
    /\ LET s == obj[t] IN
       IF ~syn[s].is_started \/ syn[s].stopped
       THEN Raise(t, "InvalidTask") /\ UNCHANGED <<syn, sends, state>>
       ELSE IF syn[s].ws # "open"
       THEN Raise(t, "SendFailed") /\ UNCHANGED <<syn, sends, state>>
       ELSE /\ syn' = [syn EXCEPT ![s].sent = Append(@, "cont")]
            /\ state' = Move(s, "Streaming")
            /\ pc' = [pc EXCEPT ![t] = "in_session"]
            /\ sends' = [sends EXCEPT ![t] = @ + 1]
            /\ UNCHANGED fault
    /\ UNCHANGED <<dvars, xvars, uvars, yvars, zvars, pvars, cvars, avars, nsyn, rem, rd, nframes, nfaults, obj, ivars,
                   live, clean>>

\* ------------------------------------------------ finish_session (401-410)
\* lines 403-408: without a session it only warns; otherwise it calls
\* streaming_complete on the object bound at that moment.
finish_session_check(t) ==
    /\ pc[t] = "in_session"
    /\ IF ~session_event
       THEN pc' = [pc EXCEPT ![t] = "done"] /\ UNCHANGED obj
       ELSE /\ pc' = [pc EXCEPT ![t] = "fs_call"]
            /\ obj' = [obj EXCEPT ![t] = synthesizer]
    /\ UNCHANGED <<dvars, xvars, uvars, yvars, zvars, pvars, cvars, avars, svars, fault, sends, ivars, hvars>>

\* streaming_complete 421-426: InvalidTask when the object is not started or
\* has stopped, else the finish-task frame.  finish_session (409-410) catches
\* and logs every fault of streaming_complete.
streaming_complete_send(t) ==
    /\ pc[t] = "fs_call"
    /\ LET s == obj[t] IN
       IF ~syn[s].is_started \/ syn[s].stopped \/ syn[s].ws # "open"
       THEN /\ pc' = [pc EXCEPT ![t] = "done"]
            /\ UNCHANGED <<syn, state>>
       ELSE /\ syn' = [syn EXCEPT ![s].sent = Append(@, "fin")]
            /\ state' = Move(s, "Finishing")
            /\ pc' = [pc EXCEPT ![t] = "fs_wait"]
    /\ UNCHANGED <<dvars, xvars, uvars, yvars, zvars, pvars, cvars, avars, nsyn, rem, rd, nframes, nfaults, obj, fault,
                   sends, ivars, live, clean>>

\* streaming_complete 427-437: complete_event was set; close the socket.
streaming_complete_wait(t) ==
    /\ pc[t] = "fs_wait"
    /\ LET s == obj[t] IN
       /\ syn[s].complete_event
       /\ syn' = [syn EXCEPT ![s].ws = "closed", ![s].stopped = TRUE,
                             ![s].is_started = FALSE]
    /\ pc' = [pc EXCEPT ![t] = "done"]
    /\ UNCHANGED <<dvars, xvars, uvars, yvars, zvars, pvars, cvars, avars, nsyn, rem, rd, nframes, nfaults, obj, fault,
                   sends, ivars, hvars>>

\* streaming_complete 428-432: complete_event.wait timed out; the
\* TimeoutError is caught and logged by finish_session (409-410).
streaming_complete_timeout(t) ==
    /\ pc[t] = "fs_wait"
    /\ ~syn[obj[t]].complete_event
    /\ Fault
    /\ state' = Move(obj[t], "Failed")
    /\ pc' = [pc EXCEPT ![t] = "done"]
    /\ UNCHANGED <<dvars, xvars, uvars, yvars, zvars, pvars, cvars, avars, qvars, obj, fault, sends, ivars, live, clean>>

\* ------------------------------- the websocket read thread of object s
\* A message is handed to on_message while the socket is open and the
\* previous handler has returned.
Reading(s) == s <= nsyn /\ syn[s].ws = "open" /\ rd[s].pc = "idle"

\* on_message 499-500: task-started, sent by the remote after run-task.
remote_task_started(s) ==
    /\ Reading(s)
    /\ rem[s] = "new"
    /\ Has(syn[s].sent, "run")
    /\ rem' = [rem EXCEPT ![s] = "started"]
    /\ syn' = [syn EXCEPT ![s].start_event = TRUE]
    /\ UNCHANGED <<dvars, xvars, uvars, yvars, zvars, pvars, cvars, avars, nsyn, rd, nframes, nfaults, tvars, ivars, hvars>>

\* on_message 523-545: a binary frame of n bytes; it is counted and handed
\* to StreamingCallback.on_data.
remote_binary(s, n) ==
    /\ Reading(s)
    /\ rem[s] = "started"
    /\ Has(syn[s].sent, "cont")
    /\ nframes < MaxFrames
    /\ nframes' = nframes + 1
    /\ syn' = [syn EXCEPT ![s].recv_audio_length = @ + n]
    /\ rd' = [rd EXCEPT ![s] = [pc |-> "od_check", len |-> n]]
    /\ UNCHANGED <<dvars, xvars, uvars, yvars, zvars, pvars, cvars, avars, nsyn, rem, nfaults, tvars, ivars,
                   hvars>>

\* on_data 205-210: dropped when interrupted; else the first-audio delay.
on_data_check(s) ==
    /\ rd[s].pc = "od_check"
    /\ IF interrupt_event
       THEN /\ rd' = [rd EXCEPT ![s] = [pc |-> "idle", len |-> 0]]
            /\ UNCHANGED <<metrics, lat>>
       ELSE /\ rd' = [rd EXCEPT ![s].pc = "od_write"]
            /\ IF metrics.first_audio_delay = "None" /\ start_time = "set"
               THEN /\ metrics' = [metrics EXCEPT !.first_audio_delay = "set"]
                    /\ lat' = lat \cup {s}
               ELSE UNCHANGED <<metrics, lat>>
    /\ delivered' = [delivered EXCEPT ![s] = Append(@, "on_data")]
    /\ UNCHANGED <<dvars, asked, chk, own, uvars, yvars, zvars, evars, start_time, synthesizer, fvars, cvars, avars,
                   nsyn, syn, rem, nframes, nfaults, tvars, ivars, hvars>>

\* on_data 213-214 with AudioPlayer.write_audio 77-88: the chunk reaches
\* sox only when the process is alive.
on_data_write(s) ==
    /\ rd[s].pc = "od_write"
    /\ IF enable_audio_playback
       THEN IF sox = "alive"
            THEN /\ sink' = Append(sink, <<s, rd[s].len>>)
                 /\ rd' = [rd EXCEPT ![s].pc = "od_save"]
            ELSE /\ rd' = [rd EXCEPT ![s].pc = "od_reset"]
                 /\ UNCHANGED sink
       ELSE /\ rd' = [rd EXCEPT ![s].pc = "od_save"]
            /\ UNCHANGED sink
    /\ UNCHANGED <<dvars, xvars, uvars, yvars, zvars, pvars, cvars, sox, nsyn, syn, rem, nframes, nfaults, tvars, ivars,
                   hvars>>

\* on_data 216-217 with AudioPlayer.reset 90-102.
on_data_reset(s) ==
    /\ rd[s].pc = "od_reset"
    /\ IF interrupt_event
       THEN UNCHANGED <<sox, nfaults>>
       ELSE initialize
    /\ rd' = [rd EXCEPT ![s].pc = "od_save"]
    /\ UNCHANGED <<dvars, xvars, uvars, yvars, zvars, pvars, cvars, sink, nsyn, syn, rem, nframes, tvars, ivars,
                   hvars>>

\* on_data 220-221
on_data_save(s) ==
    /\ rd[s].pc = "od_save"
    /\ audio_data' = IF save_audio /\ ~interrupt_event
                     THEN Append(audio_data, <<s, rd[s].len>>)
                     ELSE audio_data
    /\ rd' = [rd EXCEPT ![s].pc = "od_stat"]
    /\ UNCHANGED <<dvars, xvars, uvars, yvars, zvars, pvars, total_audio_bytes, saved_files, avars, nsyn, syn,
                   rem, nframes, nfaults, tvars, ivars, hvars>>

\* on_data 224-226
on_data_stats(s) ==
    /\ rd[s].pc = "od_stat"
    /\ IF interrupt_event
       THEN UNCHANGED <<total_audio_bytes, metrics>>
       ELSE /\ total_audio_bytes' = total_audio_bytes + rd[s].len
            /\ metrics' = [metrics EXCEPT !.audio_bytes = @ + rd[s].len]
    /\ rd' = [rd EXCEPT ![s] = [pc |-> "idle", len |-> 0]]
    /\ UNCHANGED <<dvars, xvars, uvars, yvars, zvars, evars, start_time, synthesizer, fvars, audio_data,
                   saved_files, avars, nsyn, syn, rem, nframes, nfaults, tvars, ivars,
                   hvars>>

on_data(s) ==
    \/ on_data_check(s)
    \/ on_data_write(s)
    \/ on_data_reset(s)
    \/ on_data_save(s)
    \/ on_data_stats(s)

\* on_message 501-505: task-finished, sent by the remote after finish-task;
\* on_complete does nothing, on_close follows.
remote_task_finished(s) ==
    /\ Reading(s)
    /\ rem[s] = "started"
    /\ Has(syn[s].sent, "fin")
    /\ rem' = [rem EXCEPT ![s] = "ended"]
    /\ syn' = [syn EXCEPT ![s].complete_event = TRUE]
    /\ state' = Move(s, "Completed")
    /\ rd' = [rd EXCEPT ![s].pc = "oc_save"]
    /\ delivered' = [delivered EXCEPT ![s] = Append(@, "on_complete")]
    /\ UNCHANGED <<dvars, asked, chk, own, lat, uvars, yvars, zvars, pvars, cvars, avars, nsyn, nframes, nfaults, tvars, ivars, live, clean>>

\* A task-failed handler that raises in the read thread (the branch of line
\* 512-514) and so calls neither on_error nor on_close.
remote_task_failed_Mut(s) ==
    /\ Reading(s)
    /\ rem[s] # "ended"
    /\ Has(syn[s].sent, "run")
    /\ rem' = [rem EXCEPT ![s] = "ended"]
    /\ syn' = [syn EXCEPT ![s].start_event = TRUE,
                          ![s].complete_event = TRUE]
    /\ Fault
    /\ state' = Move(s, "Failed")
    /\ UNCHANGED <<dvars, xvars, rd, uvars, yvars, zvars, pvars, cvars, avars, nsyn, nframes, tvars, ivars, live, clean>>

\* on_message 506-511: task-failed in callback mode; on_error only logs,
\* on_close follows.
remote_task_failed(s) ==
    /\ Reading(s)
    /\ rem[s] # "ended"
    /\ Has(syn[s].sent, "run")
    /\ rem' = [rem EXCEPT ![s] = "ended"]
    /\ syn' = [syn EXCEPT ![s].start_event = TRUE,
                          ![s].complete_event = TRUE]
    /\ Fault
    /\ state' = Move(s, "Failed")
    /\ rd' = [rd EXCEPT ![s].pc = "oc_save"]
    /\ delivered' = [delivered EXCEPT ![s] = Append(@, "on_error")]
    /\ UNCHANGED <<dvars, asked, chk, own, lat, uvars, yvars, zvars, pvars, cvars, avars, nsyn, nframes, tvars, ivars, live, clean>>

\* A close handler that clears the session-active flag first.
on_close_save_Mut(s) ==
    /\ rd[s].pc = "oc_save"
    /\ session_event' = FALSE
    /\ saved_files' = IF save_audio /\ audio_data # <<>>
                      THEN saved_files + 1 ELSE saved_files
    /\ rd' = [rd EXCEPT ![s].pc = "oc_sil"]
    /\ delivered' = [delivered EXCEPT ![s] = Append(@, "on_close")]
    /\ UNCHANGED <<dvars, asked, chk, own, lat, uvars, yvars, zvars, interrupt_event, mvars, fvars, audio_data,
                   total_audio_bytes, avars, nsyn, syn, rem, nframes, nfaults,
                   tvars, ivars, hvars>>

\* on_close 239-240: the wav file of the accumulated audio.
on_close_save(s) ==
    /\ rd[s].pc = "oc_save"
    /\ saved_files' = IF save_audio /\ audio_data # <<>>
                      THEN saved_files + 1 ELSE saved_files
    /\ rd' = [rd EXCEPT ![s].pc = "oc_sil"]
    /\ delivered' = [delivered EXCEPT ![s] = Append(@, "on_close")]
    /\ UNCHANGED <<dvars, asked, chk, own, lat, uvars, yvars, zvars, pvars, audio_data, total_audio_bytes, avars, nsyn, syn,
                   rem, nframes, nfaults, tvars, ivars, hvars>>

\* on_close 243-245: 4800 zero bytes; <<0, 0>> stands for that chunk.
on_close_silence(s) ==
    /\ rd[s].pc = "oc_sil"
    /\ sink' = IF enable_audio_playback /\ sox = "alive"
               THEN Append(sink, <<0, 0>>) ELSE sink
    /\ rd' = [rd EXCEPT ![s].pc = "oc_clr"]
    /\ UNCHANGED <<dvars, xvars, uvars, yvars, zvars, pvars, cvars, sox, nsyn, syn, rem, nframes, nfaults, tvars, ivars,
                   hvars>>

\* on_close 248
on_close_clear(s) ==
    /\ rd[s].pc = "oc_clr"
    /\ session_event' = FALSE
    /\ live' = {}
    /\ rd' = [rd EXCEPT ![s].pc = "idle"]
    /\ UNCHANGED <<dvars, xvars, uvars, yvars, zvars, interrupt_event, mvars, fvars, cvars, avars, nsyn, syn,
                   rem, nframes, nfaults, tvars, ivars, clean, state>>

on_close(s) ==
    \/ on_close_save(s)
    \/ on_close_silence(s)
    \/ on_close_clear(s)

\* SpeechSynthesizer.on_error 586-597: a transport error ends run_forever;
\* the callback's on_error only logs, the object is marked stopped.
ws_error(s) ==
    /\ Reading(s)
    /\ syn' = [syn EXCEPT ![s].stopped = TRUE, ![s].ws = "closed"]
    /\ Fault
    /\ state' = Move(s, "Failed")
    /\ delivered' = [delivered EXCEPT ![s] = Append(@, "on_error")]
    /\ UNCHANGED <<dvars, asked, chk, own, lat, uvars, yvars, zvars, pvars, cvars, avars, nsyn, rem, rd, nframes, tvars, ivars,
                   live, clean>>

\* The sox process exits by itself (poll() no longer returns None).
sox_exit ==
    /\ sox = "alive"
    /\ sox' = "dead"
    /\ Fault
    /\ UNCHANGED <<dvars, xvars, uvars, yvars, zvars, pvars, cvars, sink, qvars, tvars, ivars, hvars>>

\* ------------------------------------------------------ interrupt (426-452)
\* lines 428-430
interrupt_check ==
    /\ ipc = "idle"
    /\ IF session_event
       THEN /\ nint < MaxInterrupts
            /\ nint' = nint + 1
            /\ ipc' = "i_cancel"
            /\ clean' = FALSE
            /\ asked' = asked \cup (IF Starting # {} THEN {nsyn + 1}
                                     ELSE {synthesizer} \ {0})
       ELSE UNCHANGED <<ipc, nint, clean, asked>>
    /\ UNCHANGED <<dvars, chk, own, lat, delivered, uvars, yvars, zvars, pvars, cvars, avars, svars, tvars, live, state>>

\* An interrupt() that waits for the remote task to end before it goes on.
interrupt_cancel_Mut ==
    /\ ipc = "i_cancel"
    /\ synthesizer # 0 /\ rem[synthesizer] = "ended"
    /\ ipc' = "i_flag"
    /\ UNCHANGED <<dvars, xvars, uvars, yvars, zvars, pvars, cvars, avars, svars, tvars, nint, hvars>>

\* lines 433-437 with streaming_cancel 473-487: InvalidTask (caught and
\* logged) when the object is not started, nothing when it has stopped, else
\* the finish-task frame, the close of the socket and both events.
interrupt_cancel ==
    /\ ipc = "i_cancel"
    /\ LET s == synthesizer IN
       IF s = 0 \/ ~syn[s].is_started \/ syn[s].stopped \/ syn[s].ws # "open"
       THEN UNCHANGED <<syn, state>>
       ELSE /\ syn' = [syn EXCEPT ![s].sent = Append(@, "fin"),
                                  ![s].ws = "closed",
                                  ![s].start_event = TRUE,
                                  ![s].complete_event = TRUE]
            /\ state' = Move(s, "Cancelled")
    /\ ipc' = "i_flag"
    /\ UNCHANGED <<dvars, xvars, uvars, yvars, zvars, pvars, cvars, avars, nsyn, rem, rd, nframes, nfaults, tvars,
                   nint, live, clean>>

\* line 440
interrupt_flag ==
    /\ ipc = "i_flag"
    /\ interrupt_event' = TRUE
    /\ ipc' = "i_reset"
    /\ UNCHANGED <<dvars, xvars, uvars, yvars, zvars, session_event, mvars, fvars, cvars, avars, svars, tvars,
                   nint, hvars>>

\* lines 443-444 with AudioPlayer.reset 90-102
interrupt_reset ==
    /\ ipc = "i_reset"
    /\ IF enable_audio_playback
       THEN initialize
       ELSE UNCHANGED <<sox, nfaults>>
    /\ ipc' = "i_buf"
    /\ UNCHANGED <<dvars, xvars, uvars, yvars, zvars, pvars, cvars, sink, qvars, tvars, nint, hvars>>

\* lines 447-448
interrupt_buffer ==
    /\ ipc = "i_buf"
    /\ audio_data' = <<>>
    /\ ipc' = "i_clr"
    /\ UNCHANGED <<dvars, xvars, uvars, yvars, zvars, pvars, total_audio_bytes, saved_files, avars, svars, tvars,
                   nint, hvars>>

\* An interrupt() whose last statement clears the interrupt flag instead of
\* the session-active flag.
interrupt_clear_session_Mut ==
    /\ ipc = "i_clr"
    /\ interrupt_event' = FALSE
    /\ live' = {}
    /\ ipc' = "idle"
    /\ UNCHANGED <<dvars, xvars, uvars, yvars, zvars, session_event, mvars, fvars, cvars, avars, svars, tvars,
                   nint, clean, state>>

\* lines 450-452
interrupt_clear_session ==
    /\ ipc = "i_clr"
    /\ session_event' = FALSE
    /\ live' = {}
    /\ ipc' = "idle"
    /\ UNCHANGED <<dvars, xvars, uvars, yvars, zvars, interrupt_event, mvars, fvars, cvars, avars, svars, tvars,
                   nint, clean, state>>

interrupt ==
    \/ interrupt_check
    \/ interrupt_cancel
    \/ interrupt_flag
    \/ interrupt_reset
    \/ interrupt_buffer
    \/ interrupt_clear_session

\* ------------------------- SpeechSynthesizer used directly by its client
\* A thread that is in no method of the object.
Rest == {"idle", "in_session", "done"}

\* SpeechSynthesizer(...) 215-335: a new object.
synthesizer_new ==
    /\ nsyn < MaxObjects /\ nsyn < MaxSessions
    /\ nsyn' = nsyn + 1
    /\ UNCHANGED <<dvars, xvars, uvars, yvars, zvars, pvars, cvars, avars, syn, rem, rd, nframes,
                   nfaults, tvars, ivars, hvars>>

\* A client thread calls a method of object s: "sc_first" for
\* streaming_call, "cm_call" for streaming_complete, "ac_call" for
\* async_streaming_complete, "cn_call" for streaming_cancel.
client_call(t, s, method) ==
    /\ pc[t] \in Rest
    /\ s <= nsyn
    /\ Len(syn[s].sent) < MaxSent
    /\ pc' = [pc EXCEPT ![t] = method]
    /\ obj' = [obj EXCEPT ![t] = s]
    /\ UNCHANGED <<dvars, xvars, uvars, yvars, zvars, pvars, cvars, avars, svars, fault, sends, ivars,
                   hvars>>

\* streaming_complete 421-426: InvalidTask when the object is not started
\* or has stopped; else the finish-task frame (ws.send raises on a closed
\* socket), then the wait of 427-433.
streaming_complete(t) ==
    /\ pc[t] = "cm_call"
    /\ LET s == obj[t] IN
       IF ~syn[s].is_started \/ syn[s].stopped
       THEN Raise(t, "InvalidTask") /\ UNCHANGED <<syn, state>>
       ELSE IF syn[s].ws # "open"
       THEN Raise(t, "SendFailed") /\ UNCHANGED <<syn, state>>
       ELSE /\ syn' = [syn EXCEPT ![s].sent = Append(@, "fin")]
            /\ state' = Move(s, "Finishing")
            /\ pc' = [pc EXCEPT ![t] = "fs_wait"]
            /\ UNCHANGED fault
    /\ UNCHANGED <<dvars, xvars, uvars, yvars, zvars, pvars, cvars, avars, nsyn, rem, rd, nframes,
                   nfaults, obj, sends, ivars, live, clean>>

\* async_streaming_complete 464-471: the same checks and frame, then a
\* thread that runs __waiting_for_complete is started and the call returns.
async_streaming_complete(t) ==
    /\ pc[t] = "ac_call"
    /\ LET s == obj[t] IN
       IF ~syn[s].is_started \/ syn[s].stopped
       THEN Raise(t, "InvalidTask") /\ UNCHANGED <<syn, state>>
       ELSE IF syn[s].ws # "open"
       THEN Raise(t, "SendFailed") /\ UNCHANGED <<syn, state>>
       ELSE /\ syn' = [syn EXCEPT ![s].sent = Append(@, "fin"),
                                  ![s].waiters = @ + 1]
            /\ state' = Move(s, "Finishing")
            /\ pc' = [pc EXCEPT ![t] = "done"]
            /\ UNCHANGED fault
    /\ UNCHANGED <<dvars, xvars, uvars, yvars, zvars, pvars, cvars, avars, nsyn, rem, rd, nframes,
                   nfaults, obj, sends, ivars, live, clean>>

\* __waiting_for_complete 439-449 in its own thread: complete_event was
\* set; the socket is closed and the object marked stopped.
waiting_for_complete(s) ==
    /\ syn[s].waiters > 0
    /\ syn[s].complete_event
    /\ syn' = [syn EXCEPT ![s].ws = "closed", ![s].stopped = TRUE,
                          ![s].is_started = FALSE, ![s].waiters = @ - 1]
    /\ UNCHANGED <<dvars, xvars, uvars, yvars, zvars, pvars, cvars, avars, nsyn, rem, rd, nframes,
                   nfaults, tvars, ivars, hvars>>

\* A streaming_cancel that does not set complete_event.
streaming_cancel_Mut(t) ==
    /\ pc[t] = "cn_call"
    /\ LET s == obj[t] IN
       IF ~syn[s].is_started
       THEN Raise(t, "InvalidTask") /\ UNCHANGED <<syn, state>>
       ELSE IF syn[s].stopped
       THEN /\ pc' = [pc EXCEPT ![t] = "done"]
            /\ UNCHANGED <<syn, state, fault>>
       ELSE IF syn[s].ws # "open"
       THEN Raise(t, "SendFailed") /\ UNCHANGED <<syn, state>>
       ELSE /\ syn' = [syn EXCEPT ![s].sent = Append(@, "fin"),
                                  ![s].ws = "closed",
                                  ![s].start_event = TRUE]
            /\ state' = Move(s, "Cancelled")
            /\ pc' = [pc EXCEPT ![t] = "done"]
            /\ UNCHANGED fault
    /\ UNCHANGED <<dvars, xvars, uvars, yvars, zvars, pvars, cvars, avars, nsyn, rem, rd, nframes,
                   nfaults, obj, sends, ivars, live, clean>>

\* streaming_cancel 479-487: InvalidTask when the object is not started,
\* a plain return when it has stopped, else the finish-task frame, the close
\* of the socket and both events.
streaming_cancel(t) ==
    /\ pc[t] = "cn_call"
    /\ LET s == obj[t] IN
       IF ~syn[s].is_started
       THEN Raise(t, "InvalidTask") /\ UNCHANGED <<syn, state>>
       ELSE IF syn[s].stopped
       THEN /\ pc' = [pc EXCEPT ![t] = "done"]
            /\ UNCHANGED <<syn, state, fault>>
       ELSE IF syn[s].ws # "open"
       THEN Raise(t, "SendFailed") /\ UNCHANGED <<syn, state>>
       ELSE /\ syn' = [syn EXCEPT ![s].sent = Append(@, "fin"),
                                  ![s].ws = "closed",
                                  ![s].start_event = TRUE,
                                  ![s].complete_event = TRUE]
            /\ state' = Move(s, "Cancelled")
            /\ pc' = [pc EXCEPT ![t] = "done"]
            /\ UNCHANGED fault
    /\ UNCHANGED <<dvars, xvars, uvars, yvars, zvars, pvars, cvars, avars, nsyn, rem, rd, nframes,
                   nfaults, obj, sends, ivars, live, clean>>

\* --------------------------------------------------------- state queries
\* is_busy 455-457
is_busy == session_event /\ ~interrupt_event

\* ------------------------------------------- the async queue (536-636)
\* asyncio.Queue.full / qsize
Full(q) == q.maxsize > 0 /\ Len(q.items) >= q.maxsize

\* lines 561-565 and 594-598: "while full: get_nowait()", stopping on
\* QueueEmpty.
RECURSIVE Evict(_, _)
Evict(items, maxsize) ==
    IF maxsize > 0 /\ Len(items) >= maxsize /\ items # <<>>
    THEN Evict(Tail(items), maxsize)
    ELSE items

\* self._async_queue_task: the consumer task exists and has not ended.
async_queue_task == IF cpc = "none" THEN "None" ELSE "pending"

\* The tasks Queue.get_nowait wakes after n items were taken: one waiting
\* putter for each.
Woken(n) == {putters[i] : i \in 1 .. (IF n < Len(putters) THEN n ELSE Len(putters))}
Waiting(n) == SubSeq(putters, (IF n < Len(putters) THEN n ELSE Len(putters)) + 1,
                     Len(putters))

\* The collect_and_enqueue task that enqueue_text_stream of e creates.
CollectorOf(e) == IF e = "e1" THEN "k1" ELSE "k2"

\* A coroutine of the event loop returns: its locals are gone.
Return(x) == [epc EXCEPT ![x] = "idle"]

\* The event loop gives a task that is ready its next turn.
resume(x) ==
    /\ running = "none"
    /\ epc[x] \in {"sq_lock", "stq_lock", "k_collect", "put_ready"}
    /\ running' = x
    /\ UNCHANGED <<dvars, xvars, uvars, yvars, pvars, nstops, cvars, avars, svars, tvars, ivars, hvars,
                   async_queue, async_queue_lock, epc, earg, after, putters,
                   kvars, ncalls, now, snap, nevict>>

\* A coroutine of the loop calls start_queue(n) (536-543).
call_start_queue(e, n) ==
    /\ running = "none" /\ epc[e] = "idle"
    /\ running' = e
    /\ epc' = [epc EXCEPT ![e] = "sq_lock"]
    /\ earg' = [earg EXCEPT ![e] = [id |-> 0, kind |-> "none", maxsize |-> n,
                                    ts |-> 0]]
    /\ after' = [after EXCEPT ![e] = "return"]
    /\ UNCHANGED <<dvars, xvars, uvars, yvars, pvars, nstops, cvars, avars, svars, tvars, ivars, hvars,
                   async_queue, async_queue_lock, putters, kvars, ncalls, now,
                   snap, nevict>>

\* A coroutine of the loop calls stop_queue() (545-552).
call_stop_queue(e) ==
    /\ running = "none" /\ epc[e] = "idle" /\ nstops < MaxStops
    /\ nstops' = nstops + 1
    /\ running' = e
    /\ epc' = [epc EXCEPT ![e] = "stq_lock"]
    /\ UNCHANGED <<dvars, xvars, uvars, yvars, pvars, cvars, avars, svars, tvars, ivars, hvars,
                   async_queue, async_queue_lock, earg, after, putters, kvars,
                   ncalls, now, snap, nevict>>

\* A coroutine of the loop calls enqueue_text(text) (554-556): its first
\* statement awaits start_queue() with the default maxsize.
call_enqueue_text(e) ==
    /\ running = "none" /\ epc[e] = "idle" /\ ncalls < MaxCalls
    /\ ncalls' = ncalls + 1
    /\ running' = e
    /\ epc' = [epc EXCEPT ![e] = "sq_lock"]
    /\ earg' = [earg EXCEPT ![e] = [id |-> ncalls + 1, kind |-> "str",
                                    maxsize |-> DefaultMaxsize, ts |-> 0]]
    /\ after' = [after EXCEPT ![e] = "evict"]
    /\ UNCHANGED <<dvars, xvars, uvars, yvars, pvars, nstops, cvars, avars, svars, tvars, ivars, hvars,
                   async_queue, async_queue_lock, putters, kvars, now, snap,
                   nevict>>

\* A coroutine of the loop calls enqueue_text_stream(gen) (569-571) with an
\* async generator ("agen") or a plain one ("gen").
call_enqueue_text_stream(e, kind) ==
    /\ running = "none" /\ epc[e] = "idle" /\ ncalls < MaxCalls
    /\ kind = "agen" => epc[CollectorOf(e)] = "idle"
    /\ ncalls' = ncalls + 1
    /\ running' = e
    /\ epc' = [epc EXCEPT ![e] = "sq_lock"]
    /\ earg' = [earg EXCEPT ![e] = [id |-> ncalls + 1, kind |-> kind,
                                    maxsize |-> DefaultMaxsize, ts |-> 0]]
    /\ after' = [after EXCEPT ![e] = "branch"]
    /\ UNCHANGED <<dvars, xvars, uvars, yvars, pvars, nstops, cvars, avars, svars, tvars, ivars, hvars,
                   async_queue, async_queue_lock, putters, kvars, now, snap,
                   nevict>>

\* "async with self._async_queue_lock" (538, 547): taken at once when free,
\* else the task is suspended and tries again on its next turn.
queue_lock_acquire(x) ==
    /\ running = x
    /\ epc[x] \in {"sq_lock", "stq_lock"}
    /\ IF async_queue_lock
       THEN /\ running' = "none"
            /\ UNCHANGED <<async_queue_lock, epc>>
       ELSE /\ async_queue_lock' = TRUE
            /\ epc' = [epc EXCEPT ![x] = IF epc[x] = "sq_lock" THEN "sq_body"
                                                              ELSE "stq_body"]
            /\ UNCHANGED running
    /\ UNCHANGED <<dvars, xvars, uvars, yvars, pvars, nstops, cvars, avars, svars, tvars, ivars, hvars,
                   async_queue, earg, after, putters, kvars, ncalls, now,
                   snap, nevict>>

\* A start_queue that creates a consumer task on every call.
start_queue_body_Mut(x) ==
    /\ running = x
    /\ epc[x] = "sq_body"
    /\ async_queue' = IF async_queue.made THEN async_queue
                      ELSE [made |-> TRUE, maxsize |-> earg[x].maxsize,
                            items |-> <<>>]
    /\ cpc' = IF async_queue_task = "None" THEN "c_top" ELSE cpc
    /\ ntasks' = ntasks + 1
    /\ async_queue_lock' = FALSE
    /\ IF after[x] = "return"
       THEN /\ epc' = Return(x)
            /\ earg' = [earg EXCEPT ![x] = NoArg]
            /\ running' = "none"
       ELSE /\ epc' = [epc EXCEPT ![x] = after[x]]
            /\ UNCHANGED <<earg, running>>
    /\ after' = [after EXCEPT ![x] = "return"]
    /\ UNCHANGED <<bvars, sync_consumer_running, clpc, xvars, uvars, yvars,
                   pvars, nstops, cvars, avars, svars, tvars, ivars, hvars,
                   putters, cur, ncalls, now, snap, nevict>>

\* lines 539-543 and the release of the lock, then the caller's next
\* statement: "if self._async_queue is None: return" (557-558, 572-573).
\* A consumer task is created only when none is referred to.
start_queue_body(x) ==
    /\ running = x
    /\ epc[x] = "sq_body"
    /\ async_queue' = IF async_queue.made THEN async_queue
                      ELSE [made |-> TRUE, maxsize |-> earg[x].maxsize,
                            items |-> <<>>]
    /\ cpc' = IF async_queue_task = "None" THEN "c_top" ELSE cpc
    /\ ntasks' = IF async_queue_task = "None" THEN ntasks + 1 ELSE ntasks
    /\ async_queue_lock' = FALSE
    /\ IF after[x] = "return"
       THEN /\ epc' = Return(x)
            /\ earg' = [earg EXCEPT ![x] = NoArg]
            /\ running' = "none"
       ELSE /\ epc' = [epc EXCEPT ![x] = after[x]]
            /\ UNCHANGED <<earg, running>>
    /\ after' = [after EXCEPT ![x] = "return"]
    /\ UNCHANGED <<bvars, sync_consumer_running, clpc, xvars, uvars, yvars,
                   pvars, nstops, cvars, avars, svars, tvars, ivars, hvars,
                   putters, cur, ncalls, now, snap, nevict>>

\* lines 548-552: the consumer task is cancelled, task and queue are
\* forgotten; the putters of the forgotten queue are never woken.
stop_queue_body(x) ==
    /\ running = x
    /\ epc[x] = "stq_body"
    /\ cpc' = "none"
    /\ ntasks' = IF async_queue_task = "None" THEN ntasks ELSE ntasks - 1
    /\ cur' = NoItem
    /\ async_queue' = NoQueue
    /\ putters' = <<>>
    /\ async_queue_lock' = FALSE
    /\ epc' = Return(x)
    /\ running' = "none"
    /\ UNCHANGED <<bvars, sync_consumer_running, clpc, xvars, uvars, yvars,
                   pvars, nstops, cvars, avars, svars, tvars, ivars, hvars,
                   earg, after, ncalls, now, snap, nevict>>

\* An enqueue_text_stream that tests is_busy() only, not the queue size.
enqueue_text_stream_branch_Mut(x) ==
    /\ running = x
    /\ epc[x] = "branch"
    /\ IF is_busy
       THEN IF earg[x].kind = "agen"
            THEN /\ epc' = [epc EXCEPT ![x] = "idle",
                                       ![CollectorOf(x)] = "k_collect"]
                 /\ earg' = [earg EXCEPT ![CollectorOf(x)] = earg[x],
                                         ![x] = NoArg]
                 /\ running' = "none"
                 /\ UNCHANGED after
            ELSE /\ epc' = [epc EXCEPT ![x] = "sq_lock"]
                 /\ earg' = [earg EXCEPT ![x].kind = "str"]
                 /\ after' = [after EXCEPT ![x] = "evict"]
                 /\ UNCHANGED running
       ELSE /\ epc' = [epc EXCEPT ![x] = "evict"]
            /\ UNCHANGED <<earg, after, running>>
    /\ UNCHANGED <<dvars, xvars, uvars, yvars, pvars, nstops, cvars, avars, svars, tvars, ivars, hvars,
                   async_queue, async_queue_lock, putters, kvars, ncalls, now,
                   snap, nevict>>

\* lines 575-600: busy or something queued means collect first (a task for
\* an async generator, a join and enqueue_text for a plain one); otherwise
\* the generator itself goes into the queue.
enqueue_text_stream_branch(x) ==
    /\ running = x
    /\ epc[x] = "branch"
    /\ IF is_busy \/ Len(async_queue.items) > 0
       THEN IF earg[x].kind = "agen"
            THEN /\ epc' = [epc EXCEPT ![x] = "idle",
                                       ![CollectorOf(x)] = "k_collect"]
                 /\ earg' = [earg EXCEPT ![CollectorOf(x)] = earg[x],
                                         ![x] = NoArg]
                 /\ running' = "none"
                 /\ UNCHANGED after
            ELSE /\ epc' = [epc EXCEPT ![x] = "sq_lock"]
                 /\ earg' = [earg EXCEPT ![x].kind = "str"]
                 /\ after' = [after EXCEPT ![x] = "evict"]
                 /\ UNCHANGED running
       ELSE /\ epc' = [epc EXCEPT ![x] = "evict"]
            /\ UNCHANGED <<earg, after, running>>
    /\ UNCHANGED <<dvars, xvars, uvars, yvars, pvars, nstops, cvars, avars, svars, tvars, ivars, hvars,
                   async_queue, async_queue_lock, putters, kvars, ncalls, now,
                   snap, nevict>>

\* collect_and_enqueue 577-586: the task waits for the next chunk, gives up
\* when the generator raises, or joins what it has and calls enqueue_text.
collector_collect(k) ==
    /\ running = k
    /\ epc[k] = "k_collect"
    /\ \/ /\ running' = "none"
          /\ UNCHANGED <<epc, earg, after>>
       \/ /\ epc' = Return(k)
          /\ earg' = [earg EXCEPT ![k] = NoArg]
          /\ running' = "none"
          /\ UNCHANGED after
       \/ /\ epc' = [epc EXCEPT ![k] = "sq_lock"]
          /\ earg' = [earg EXCEPT ![k].kind = "str"]
          /\ after' = [after EXCEPT ![k] = "evict"]
          /\ UNCHANGED running
    /\ UNCHANGED <<dvars, xvars, uvars, yvars, pvars, nstops, cvars, avars, svars, tvars, ivars, hvars,
                   async_queue, async_queue_lock, putters, kvars, ncalls, now,
                   snap, nevict>>

\* An enqueue that goes to the insert without evicting anything.
enqueue_evict_Skip(x) ==
    /\ running = x
    /\ epc[x] = "evict"
    /\ epc' = [epc EXCEPT ![x] = "put"]
    /\ snap' = [snap EXCEPT ![x] = async_queue.items]
    /\ UNCHANGED <<dvars, xvars, uvars, yvars, pvars, nstops, cvars, avars, svars, tvars, ivars, hvars,
                   async_queue, async_queue_lock, running, earg, after,
                   putters, kvars, ncalls, now, nevict>>

\* An enqueue whose eviction takes the newest item of a full queue.
enqueue_evict_Newest(x) ==
    /\ running = x
    /\ epc[x] = "evict"
    /\ LET full == Full(async_queue) /\ async_queue.items # <<>>
           kept == IF full
                   THEN SubSeq(async_queue.items, 1, Len(async_queue.items) - 1)
                   ELSE async_queue.items
           n == Len(async_queue.items) - Len(kept)
       IN /\ async_queue' = [async_queue EXCEPT !.items = kept]
          /\ putters' = Waiting(n)
          /\ epc' = [y \in Tasks |-> IF y = x THEN "put"
                                     ELSE IF y \in Woken(n) THEN "put_ready"
                                     ELSE epc[y]]
          /\ nevict' = nevict + n
    /\ snap' = [snap EXCEPT ![x] = async_queue.items]
    /\ UNCHANGED <<dvars, xvars, uvars, yvars, pvars, nstops, cvars, avars, svars, tvars, ivars, hvars,
                   async_queue_lock, running, earg, after, kvars, ncalls, now>>

\* lines 561-565 (enqueue_text) and 594-598 (enqueue_text_stream): the
\* eviction loop; every get_nowait wakes one waiting putter.
enqueue_evict(x) ==
    /\ running = x
    /\ epc[x] = "evict"
    /\ LET kept == Evict(async_queue.items, async_queue.maxsize)
           n == Len(async_queue.items) - Len(kept)
       IN /\ async_queue' = [async_queue EXCEPT !.items = kept]
          /\ putters' = Waiting(n)
          /\ epc' = [y \in Tasks |-> IF y = x THEN "put"
                                     ELSE IF y \in Woken(n) THEN "put_ready"
                                     ELSE epc[y]]
          /\ nevict' = nevict + n
    /\ snap' = [snap EXCEPT ![x] = async_queue.items]
    /\ UNCHANGED <<dvars, xvars, uvars, yvars, pvars, nstops, cvars, avars, svars, tvars, ivars, hvars,
                   async_queue_lock, running, earg, after, kvars, ncalls, now>>

\* lines 567 and 600 with asyncio.Queue.put: "await put((time.time(), x))"
\* suspends while the queue is full, else inserts and wakes the getter.
enqueue_put(x) ==
    /\ running = x
    /\ epc[x] \in {"put", "put_ready"}
    /\ LET ts == IF epc[x] = "put_ready" THEN earg[x].ts ELSE now
       IN IF Full(async_queue)
          THEN /\ epc' = [epc EXCEPT ![x] = "put_wait"]
               /\ earg' = [earg EXCEPT ![x].ts = ts]
               /\ putters' = Append(putters, x)
               /\ UNCHANGED <<async_queue, cpc, snap>>
          ELSE /\ async_queue' = [async_queue EXCEPT !.items =
                      Append(@, [ts |-> ts, id |-> earg[x].id,
                                 kind |-> earg[x].kind])]
               /\ cpc' = IF cpc = "c_get_wait" THEN "c_get_ready" ELSE cpc
               /\ epc' = Return(x)
               /\ earg' = [earg EXCEPT ![x] = NoArg]
               /\ snap' = [snap EXCEPT ![x] = <<>>]
               /\ UNCHANGED putters
    /\ running' = "none"
    /\ UNCHANGED <<dvars, xvars, uvars, yvars, pvars, nstops, cvars, avars, svars, tvars, ivars, hvars,
                   async_queue_lock, after, cur, ncalls, now, nevict>>

\* ------------------------------------------ _async_queue_loop (602-636)
\* The event loop gives the consumer task its next turn.
consumer_resume ==
    /\ running = "none"
    /\ cpc \in {"c_top", "c_get_ready", "c_play"}
    /\ running' = "consumer"
    /\ UNCHANGED <<dvars, xvars, uvars, yvars, pvars, nstops, cvars, avars, svars, tvars, ivars, hvars,
                   async_queue, async_queue_lock, epc, earg, after, putters,
                   kvars, ncalls, now, snap, nevict>>

\* lines 606-610 with asyncio.Queue.get: sleep while there is no queue,
\* wait while it is empty, else take the oldest item (waking one putter).
consumer_get ==
    /\ running = "consumer"
    /\ cpc \in {"c_top", "c_get_ready"}
    /\ IF ~async_queue.made
       THEN /\ cpc' = "c_top"
            /\ running' = "none"
            /\ UNCHANGED <<async_queue, cur, putters, epc>>
       ELSE IF async_queue.items = <<>>
       THEN /\ cpc' = "c_get_wait"
            /\ running' = "none"
            /\ UNCHANGED <<async_queue, cur, putters, epc>>
       ELSE /\ cur' = Head(async_queue.items)
            /\ async_queue' = [async_queue EXCEPT !.items = Tail(@)]
            /\ putters' = Waiting(1)
            /\ epc' = [y \in Tasks |-> IF y \in Woken(1) THEN "put_ready"
                                       ELSE epc[y]]
            /\ cpc' = "c_ttl"
            /\ UNCHANGED running
    /\ UNCHANGED <<dvars, xvars, uvars, yvars, pvars, nstops, cvars, avars, svars, tvars, ivars, hvars,
                   async_queue_lock, earg, after, ncalls, now, snap, nevict>>

\* A consumer that also drops an item whose age equals the TTL.
consumer_ttl_Mut ==
    /\ running = "consumer"
    /\ cpc = "c_ttl"
    /\ cpc' = IF now - cur.ts >= TTL THEN "c_top" ELSE "c_tts"
    /\ UNCHANGED <<dvars, xvars, uvars, yvars, pvars, nstops, cvars, avars, svars, tvars, ivars, hvars,
                   lvars, cur, ncalls, now, snap, nevict>>

\* lines 612-615: an item older than the TTL is dropped and the loop goes
\* on to the next get without a suspension.
consumer_ttl ==
    /\ running = "consumer"
    /\ cpc = "c_ttl"
    /\ cpc' = IF now - cur.ts > TTL THEN "c_top" ELSE "c_tts"
    /\ UNCHANGED <<dvars, xvars, uvars, yvars, pvars, nstops, cvars, avars, svars, tvars, ivars, hvars,
                   lvars, cur, ncalls, now, snap, nevict>>

\* line 626 with tts_stream 505-509: start_session refuses when the flag is
\* set; else it sets the flag, clears the interrupt flag and resets the
\* timestamp and the metrics, and the coroutine is suspended while the
\* session plays (the transport of a queued playback is not followed here).
consumer_tts_stream_start ==
    /\ running = "consumer"
    /\ cpc = "c_tts"
    /\ IF session_event
       THEN /\ cpc' = "c_cb"
            /\ UNCHANGED <<evars, start_time, metrics, running>>
       ELSE /\ session_event' = TRUE
            /\ interrupt_event' = FALSE
            /\ start_time' = "None"
            /\ metrics' = NewMetrics
            /\ cpc' = "c_play"
            /\ running' = "none"
    /\ UNCHANGED <<dvars, xvars, uvars, yvars, synthesizer, nstops, fvars, cvars, avars, svars, tvars, ivars, hvars,
                   async_queue, async_queue_lock, epc, earg, after, putters,
                   cur, ncalls, now, snap, nevict>>

\* tts_stream 510-529 with async_finish_session 412-424: the wait ends when
\* the session-active flag has been cleared (on_close 248, or line 527).
consumer_tts_stream_end ==
    /\ running = "consumer"
    /\ cpc = "c_play"
    /\ session_event' = FALSE
    /\ cpc' = "c_cb"
    /\ UNCHANGED <<dvars, xvars, uvars, yvars, interrupt_event, nstops, mvars, fvars, cvars, avars, svars, tvars,
                   ivars, hvars, lvars, cur, ncalls, now, snap, nevict>>

\* lines 628-634: the post-play callback, awaited when one is set.
consumer_callback ==
    /\ running = "consumer"
    /\ cpc = "c_cb"
    /\ cpc' = "c_top"
    /\ cur' = NoItem
    /\ running' \in {"none", "consumer"}
    /\ UNCHANGED <<dvars, xvars, uvars, yvars, pvars, nstops, cvars, avars, svars, tvars, ivars, hvars,
                   async_queue, async_queue_lock, epc, earg, after, putters,
                   ncalls, now, snap, nevict>>

\* time.time() advances (a run of a task between two suspensions takes no
\* time on this clock).
tick ==
    /\ running = "none"
    /\ now < MaxTime
    /\ now' = now + 1
    /\ UNCHANGED <<dvars, xvars, uvars, yvars, pvars, nstops, cvars, avars, svars, tvars, ivars, hvars,
                   lvars, kvars, ncalls, snap, nevict>>

\* ------------------- tts_stream (505-529), async_finish_session (412-424)
\* tts_stream(gen) is called: its first statement is start_session().
tts_stream_call(t) ==
    /\ pc[t] \in {"idle", "done", "refused"}
    /\ pc' = [pc EXCEPT ![t] = "ss_check"]
    /\ chk' = [chk EXCEPT ![t] = 0]
    /\ UNCHANGED <<dvars, asked, own, lat, delivered, uvars, yvars, zvars, pvars, cvars, avars, svars, obj, fault, sends,
                   ivars, hvars>>

\* lines 512-515 and 518-521: the generator has yielded a chunk; a set
\* interrupt flag breaks the loop (and leads to line 524), else the chunk
\* is taken for send_text.
tts_stream_check(t) ==
    /\ pc[t] = "in_session"
    /\ chk[t] = sends[t] /\ sends[t] < MaxSends
    /\ IF interrupt_event
       THEN pc' = [pc EXCEPT ![t] = "af_check"] /\ UNCHANGED chk
       ELSE chk' = [chk EXCEPT ![t] = @ + 1] /\ UNCHANGED pc
    /\ UNCHANGED <<dvars, asked, own, lat, delivered, uvars, yvars, zvars, pvars, cvars, avars, svars, obj, fault, sends,
                   ivars, hvars>>

\* lines 516 and 522: send_text(chunk) for the chunk that passed the check.
tts_stream_send(t) ==
    /\ chk[t] = sends[t] + 1
    /\ send_text_check(t)

\* async_finish_session(wait_for_completion) is called: by tts_stream at
\* line 524 when the generator is exhausted (wait is True there), or by a
\* caller of its own after start_session and send_text.
async_finish_session_call(t, wait) ==
    /\ pc[t] = "in_session"
    /\ chk[t] = sends[t]
    /\ pc' = [pc EXCEPT ![t] = IF wait THEN "af_check" ELSE "afn_check"]
    /\ UNCHANGED <<dvars, uvars, xvars, yvars, zvars, pvars, cvars, avars, svars, obj, fault,
                   sends, ivars, hvars>>

\* lines 414-416: without a session it only warns and returns.
async_finish_session_check(t) ==
    /\ pc[t] \in {"af_check", "afn_check"}
    /\ IF ~session_event
       THEN pc' = [pc EXCEPT ![t] = "done"] /\ UNCHANGED obj
       ELSE /\ pc' = [pc EXCEPT ![t] = IF pc[t] = "af_check" THEN "af_call"
                                                              ELSE "afn_call"]
            /\ obj' = [obj EXCEPT ![t] = synthesizer]
    /\ UNCHANGED <<dvars, uvars, xvars, yvars, zvars, pvars, cvars, avars, svars, fault, sends,
                   ivars, hvars>>

\* lines 418-424 with async_streaming_complete 464-471: every fault of the
\* call (no object, InvalidTask, a closed socket) is caught and logged and
\* the method returns; else the finish-task frame is sent, the waiter
\* thread is started, and the method returns or goes on to poll the flag.
async_finish_session_complete(t) ==
    /\ pc[t] \in {"af_call", "afn_call"}
    /\ LET s == obj[t] IN
       IF s = 0
       THEN /\ pc' = [pc EXCEPT ![t] = "done"]
            /\ UNCHANGED <<syn, state>>
       ELSE IF ~syn[s].is_started \/ syn[s].stopped \/ syn[s].ws # "open"
       THEN /\ pc' = [pc EXCEPT ![t] = "done"]
            /\ UNCHANGED <<syn, state>>
       ELSE /\ syn' = [syn EXCEPT ![s].sent = Append(@, "fin"),
                                  ![s].waiters = @ + 1]
            /\ state' = Move(s, "Finishing")
            /\ pc' = [pc EXCEPT ![t] = IF pc[t] = "af_call" THEN "af_wait"
                                                             ELSE "done"]
    /\ UNCHANGED <<dvars, uvars, xvars, yvars, zvars, pvars, cvars, avars, nsyn, rem, rd,
                   nframes, nfaults, obj, fault, sends, ivars, live, clean>>

\* lines 421-422: "while self._session_event.is_set(): sleep(0.1)" ends.
async_finish_session_wait(t) ==
    /\ pc[t] = "af_wait"
    /\ ~session_event
    /\ pc' = [pc EXCEPT ![t] = "done"]
    /\ UNCHANGED <<dvars, uvars, xvars, yvars, zvars, pvars, cvars, avars, svars, obj, fault,
                   sends, ivars, hvars>>

\* lines 526-529: an exception of send_text is logged, the session-active
\* flag is cleared and tts_stream returns False.
tts_stream_except(t) ==
    /\ pc[t] = "raised"
    /\ session_event' = FALSE
    /\ live' = {}
    /\ pc' = [pc EXCEPT ![t] = "idle"]
    /\ fault' = [fault EXCEPT ![t] = "none"]
    /\ UNCHANGED <<dvars, uvars, xvars, yvars, zvars, interrupt_event, mvars, fvars, cvars,
                   avars, svars, obj, sends, ivars, clean, state>>

\* The statements of tts_stream after its call.
tts_stream(t) ==
    \/ start_session_check(t)
    \/ start_session_set(t)
    \/ start_session_clear(t)
    \/ start_session_init(t)
    \/ tts_stream_check(t)
    \/ tts_stream_send(t)
    \/ send_text_call(t)
    \/ streaming_call_first(t)
    \/ start_stream_connect(t)
    \/ start_stream_started(t)
    \/ on_open(t)
    \/ submit_text(t)
    \/ async_finish_session_check(t)
    \/ async_finish_session_complete(t)
    \/ async_finish_session_wait(t)
    \/ tts_stream_except(t)

\* ------------------- _async_queue_loop (602-636) around a followed cycle
\* line 626: the consumer coroutine calls tts_stream(gen); the cycle runs
\* as the statements of thread "t1", inside the consumer's turn.
consumer_tts_stream_call ==
    /\ running = "consumer"
    /\ cpc = "c_tts"
    /\ pc["t1"] \in {"idle", "done", "refused"}
    /\ cpc' = "c_cycle"
    /\ pc' = [pc EXCEPT !["t1"] = "ss_check"]
    /\ chk' = [chk EXCEPT !["t1"] = 0]
    /\ UNCHANGED <<dvars, asked, own, lat, delivered, uvars, yvars, pvars, cvars, avars, svars, obj, fault,
                   sends, ivars, hvars, lvars, cur, ncalls, nstops, now, snap,
                   nevict>>

\* tts_stream 505-529 as called at line 626: the statements of the cycle,
\* run while the event loop is in the consumer's turn.
consumer_cycle ==
    /\ running = "consumer"
    /\ cpc = "c_cycle"
    /\ tts_stream("t1") \/ async_finish_session_call("t1", TRUE)

\* async_finish_session 421-422: "await asyncio.sleep(0.1)" while the flag
\* is set gives the event loop to the other tasks.
consumer_cycle_sleep ==
    /\ running = "consumer"
    /\ cpc = "c_cycle"
    /\ pc["t1"] = "af_wait"
    /\ session_event
    /\ running' = "none"
    /\ UNCHANGED <<dvars, xvars, uvars, yvars, pvars, cvars, avars, svars, tvars, ivars,
                   hvars, async_queue, async_queue_lock, epc, earg, after,
                   putters, kvars, ncalls, nstops, now, snap, nevict>>

\* The sleep of line 422 is over and the loop resumes the consumer.
consumer_cycle_wake ==
    /\ running = "none"
    /\ cpc = "c_cycle"
    /\ running' = "consumer"
    /\ UNCHANGED <<dvars, xvars, uvars, yvars, pvars, cvars, avars, svars, tvars, ivars,
                   hvars, async_queue, async_queue_lock, epc, earg, after,
                   putters, kvars, ncalls, nstops, now, snap, nevict>>

\* line 626 returns: tts_stream has returned False at 508 or 528, or True at
\* 525, and the loop is at the callback test of line 629.
consumer_tts_stream_return ==
    /\ running = "consumer"
    /\ cpc = "c_cycle"
    /\ pc["t1"] \in {"idle", "done", "refused"}
    /\ cpc' = "c_cb"
    /\ UNCHANGED <<dvars, xvars, uvars, yvars, pvars, cvars, avars, svars, tvars, ivars,
                   hvars, lvars, cur, ncalls, nstops, now, snap, nevict>>

\* ---------------------------------------- the sync queue (492-502, 649-675)
\* The statements of tts() (484-490) that follow its call, with a remote that
\* answers every frame.
tts(t) ==
    \/ start_session_check(t)
    \/ start_session_set(t)
    \/ start_session_clear(t)
    \/ start_session_init(t)
    \/ send_text_check(t)
    \/ send_text_call(t)
    \/ streaming_call_first(t)
    \/ start_stream_connect(t)
    \/ start_stream_started(t)
    \/ on_open(t)
    \/ submit_text(t)
    \/ finish_session_check(t)
    \/ streaming_complete_send(t)
    \/ streaming_complete_wait(t)

\* deque.append on a deque(maxlen=n): a full deque drops its leftmost entry.
DequeAppend(q, x) ==
    IF Len(q) >= SyncMaxlen THEN Append(Tail(q), x) ELSE Append(q, x)

\* tts_with_queue(text, timeout) is called (492-495): it starts with tts().
\* Deadlines and late calls are limited to the first MaxTimed texts.
tts_with_queue_call(t, timeout) ==
    /\ t # "t1"
    /\ pc[t] \in {"idle", "done"}
    /\ nq < MaxQueued
    /\ (timeout # 0 \/ now # 0) => nq < MaxTimed
    /\ pc' = [pc EXCEPT ![t] = "ss_check"]
    /\ qarg' = [qarg EXCEPT ![t] = timeout]
    /\ UNCHANGED <<dvars, xvars, uvars, pvars, cvars, avars, svars, obj, fault, sends, ivars, hvars,
                   zvars, sync_queue, wvars, nq, played, expired>>

\* lines 498-502: tts() returned False; the text goes into the deque under
\* the queue lock and the call returns True.
tts_with_queue_append(t) ==
    /\ t # "t1"
    /\ pc[t] = "refused"
    /\ sync_queue' = DequeAppend(sync_queue,
                         [ts |-> now, id |-> nq + 1, timeout |-> qarg[t]])
    /\ nq' = nq + 1
    /\ pc' = [pc EXCEPT ![t] = "idle"]
    /\ UNCHANGED <<dvars, xvars, uvars, pvars, cvars, avars, svars, obj, fault, sends, ivars, hvars,
                   zvars, qarg, wvars, played, expired>>

\* lines 651-656: while _sync_consumer_running is set the worker takes the
\* leftmost text under the queue lock (an empty deque means a sleep and
\* another look).
sync_consumer_pop ==
    /\ wpc = "poll"
    /\ sync_consumer_running
    /\ sync_queue # <<>>
    /\ witem' = Head(sync_queue)
    /\ sync_queue' = Tail(sync_queue)
    /\ wpc' = "check"
    /\ UNCHANGED <<dvars, xvars, uvars, pvars, cvars, avars, svars, tvars, ivars, hvars, zvars,
                   qarg, nq, played, expired>>

\* lines 659-669: past its deadline the text is dropped with a warning,
\* otherwise the worker calls tts(text).
sync_consumer_attempt ==
    /\ wpc = "check"
    /\ IF witem.timeout # 0 /\ now > witem.ts + witem.timeout
       THEN /\ expired' = expired \cup {witem.id}
            /\ witem' = NoText
            /\ wpc' = "poll"
            /\ UNCHANGED pc
       ELSE /\ pc' = [pc EXCEPT !["t1"] = "ss_check"]
            /\ wpc' = "tts"
            /\ UNCHANGED <<witem, expired>>
    /\ UNCHANGED <<dvars, xvars, uvars, pvars, cvars, avars, svars, obj, fault, sends, ivars, hvars,
                   zvars, sync_queue, qarg, nq, played>>

\* lines 666-671: tts() returned True (played: next text), returned False
\* (sleep, then the deadline check again), or raised: nothing in the loop
\* catches it, so the worker thread ends.
sync_consumer_result ==
    /\ wpc = "tts"
    /\ pc["t1"] \in {"done", "refused", "raised"}
    /\ IF pc["t1"] = "done"
       THEN /\ played' = played \cup {witem.id}
            /\ witem' = NoText
            /\ wpc' = "poll"
            /\ pc' = [pc EXCEPT !["t1"] = "idle"]
       ELSE IF pc["t1"] = "refused"
       THEN /\ wpc' = "check"
            /\ pc' = [pc EXCEPT !["t1"] = "idle"]
            /\ UNCHANGED <<witem, played>>
       ELSE /\ wpc' = "dead"
            /\ UNCHANGED <<pc, witem, played>>
    /\ UNCHANGED <<dvars, xvars, uvars, pvars, cvars, avars, svars, obj, fault, sends, ivars, hvars,
                   zvars, sync_queue, qarg, nq, expired>>

\* line 651: the test of the outer loop finds the flag cleared and the
\* worker thread ends. The retry loop of 662-673 has no such test.
sync_consumer_exit ==
    /\ wpc = "poll"
    /\ ~sync_consumer_running
    /\ wpc' = "exit"
    /\ UNCHANGED <<dvars, xvars, uvars, pvars, cvars, avars, svars, tvars,
                   ivars, hvars, zvars, sync_queue, qarg, witem, nq, played,
                   expired>>

\* ------------------------------ CosyVoiceStreamingPlayer.close (677-689)
\* line 680: close() clears the worker's flag.
close_stop ==
    /\ clpc = "idle"
    /\ sync_consumer_running' = FALSE
    /\ clpc' = "join"
    /\ UNCHANGED <<bvars, ntasks, xvars, uvars, yvars, zvars, pvars, cvars,
                   avars, svars, tvars, ivars, hvars>>

\* lines 681-682: join(timeout=1.0) returns when the worker has ended or
\* when the second is over, whichever comes first.
close_join ==
    /\ clpc = "join"
    /\ clpc' = "sink"
    /\ UNCHANGED <<bvars, sync_consumer_running, ntasks, xvars, uvars, yvars,
                   zvars, pvars, cvars, avars, svars, tvars, ivars, hvars>>

\* lines 685-686 with AudioPlayer.close 104-118: the sox process is ended
\* and the reference to it is dropped.
close_audio_player ==
    /\ clpc = "sink"
    /\ sox' = "none"
    /\ clpc' = "clear"
    /\ UNCHANGED <<bvars, sync_consumer_running, ntasks, xvars, uvars, yvars,
                   zvars, pvars, cvars, sink, svars, tvars, ivars, hvars>>

\* lines 688-689: the session-active flag is cleared and close() returns.
close_clear ==
    /\ clpc = "clear"
    /\ session_event' = FALSE
    /\ live' = {}
    /\ clpc' = "closed"
    /\ UNCHANGED <<bvars, sync_consumer_running, ntasks, xvars, uvars, yvars,
                   zvars, interrupt_event, mvars, fvars, cvars, avars, svars,
                   tvars, ivars, clean, state>>

close ==
    \/ close_stop
    \/ close_join
    \/ close_audio_player
    \/ close_clear

\* ------------------------------------------- VolumeController (122-180)
\* set_volume 131-132: the percentage is cut to 0..100 and scaled to the
\* 0..20 steps of the system (v / 5 never ends in .5, so round() is the
\* nearest step).
Percent(p) == IF p < 0 THEN 0 ELSE IF p > 100 THEN 100 ELSE p
SystemVolume(p) == (Percent(p) * 20 + 50) \div 100

\* CosyVoiceStreamingPlayer.set_volume 354-356 with VolumeController.
\* set_volume 129-157: termux-volume is run; only a zero return code stores
\* the percentage (a non-zero code, a timeout, a missing command and any
\* other exception are logged and answered False).
set_volume(p, ok) ==
    /\ volume' = IF ok THEN Percent(p) ELSE volume
    /\ system_volume' = SystemVolume(p)
    /\ varg' = NoVolumeArg
    /\ vresult' = NoResult
    /\ UNCHANGED <<dvars, xvars, pvars, cvars, avars, svars, tvars, ivars, hvars, zvars,
                   yvars>>

\* A change_volume that cuts at the upper limit only.
change_volume_Mut(c, ok) ==
    /\ LET new == IF volume + c > MaxVolume THEN MaxVolume ELSE volume + c
       IN /\ volume' = IF ok THEN Percent(new) ELSE volume
          /\ system_volume' = SystemVolume(new)
          /\ varg' = [v |-> volume, c |-> c]
          /\ vresult' = IF ~ok THEN [kind |-> "failed", value |-> 0,
                                      original |-> 0]
                         ELSE IF volume + c > MaxVolume
                         THEN [kind |-> "max", value |-> new, original |-> 0]
                         ELSE [kind |-> "changed", value |-> new,
                               original |-> volume]
    /\ UNCHANGED <<dvars, xvars, pvars, cvars, avars, svars, tvars, ivars, hvars, zvars,
                   yvars>>

\* volume_change 362-364 with VolumeController.change_volume 163-180: the
\* sum is cut to 5..35, the message names the new value, and the message of
\* a failed set_volume replaces it.
change_volume(c, ok) ==
    /\ LET sum == volume + c
           new == IF sum < MinVolume THEN MinVolume
                  ELSE IF sum > MaxVolume THEN MaxVolume ELSE sum
       IN /\ volume' = IF ok THEN Percent(new) ELSE volume
          /\ system_volume' = SystemVolume(new)
          /\ varg' = [v |-> volume, c |-> c]
          /\ vresult' = IF ~ok THEN [kind |-> "failed", value |-> 0,
                                      original |-> 0]
                         ELSE IF sum < MinVolume
                         THEN [kind |-> "min", value |-> new, original |-> 0]
                         ELSE IF sum > MaxVolume
                         THEN [kind |-> "max", value |-> new, original |-> 0]
                         ELSE [kind |-> "changed", value |-> new,
                               original |-> volume]
    /\ UNCHANGED <<dvars, xvars, pvars, cvars, avars, svars, tvars, ivars, hvars, zvars,
                   yvars>>

\* ------------------------------------------------- AudioPlayer (48-120)
\* Everything but the AudioPlayer and the fault count.
ovars == <<pvars, cvars, avars, qvars, tvars, ivars, hvars, zvars, yvars, uvars,
           xvars, sync_consumer_running, clpc, ntasks>>

\* The operations each thread performs on the AudioPlayer: the caller of
\* streaming_call raises on_open (193-196), the read thread writes (213-214,
\* 243-245) and resets (216-217), the control path resets (interrupt,
\* 443-444) and closes (close, 684-685).
SinkOps == [caller |-> {"o_check"}, reader |-> {"w_lock", "r_lock"},
            control |-> {"r_lock", "c_lock"}]

\* The positions at which a thread is inside a mutating operation.
Inside == {"w_check", "w_write", "r_term", "r_wait", "r_init", "c_close",
           "c_wait", "o_init"}

\* AudioPlayer.initialize 55-75: Popen spawns a process and the attribute
\* refers to it, or Popen fails and the attribute is None.  The method
\* takes no lock.
player_initialize ==
    \/ /\ nspawn < MaxSpawns
       /\ nspawn' = nspawn + 1
       /\ procs' = procs \cup {nspawn + 1}
       /\ sox_process' = nspawn + 1
       /\ UNCHANGED nfaults
    \/ /\ Fault
       /\ sox_process' = 0
       /\ UNCHANGED <<procs, nspawn>>

\* A thread enters write_audio, reset, close or on_open.
sink_call(th, op) ==
    /\ spc[th] = "idle"
    /\ op \in SinkOps[th]
    /\ op \in {"r_lock", "o_check"} => nspawn < MaxSpawns
    /\ spc' = [spc EXCEPT ![th] = op]
    /\ UNCHANGED <<ovars, nfaults, sox_process, procs, nspawn, sink_lock, tearing>>

\* "with self._lock" at 79, 92 and 106.
sink_lock_acquire(th) ==
    /\ spc[th] \in {"w_lock", "r_lock", "c_lock"}
    /\ sink_lock = "none"
    /\ sink_lock' = th
    /\ spc' = [spc EXCEPT ![th] = CASE spc[th] = "w_lock" -> "w_check"
                                     [] spc[th] = "r_lock" -> "r_term"
                                     [] OTHER -> "c_close"]
    /\ UNCHANGED <<ovars, nfaults, sox_process, procs, nspawn, tearing>>

\* write_audio 80: a process that is referred to and has not exited.
write_audio_check(th) ==
    /\ spc[th] = "w_check"
    /\ IF sox_process # 0 /\ sox_process \in procs
       THEN spc' = [spc EXCEPT ![th] = "w_write"] /\ UNCHANGED sink_lock
       ELSE spc' = [spc EXCEPT ![th] = "idle"] /\ sink_lock' = "none"
    /\ UNCHANGED <<ovars, nfaults, sox_process, procs, nspawn, tearing>>

\* write_audio 81-88: the write and flush on the process the attribute
\* refers to at that moment (a failure is caught), and the lock is released.
write_audio_write(th) ==
    /\ spc[th] = "w_write"
    /\ spc' = [spc EXCEPT ![th] = "idle"]
    /\ sink_lock' = "none"
    /\ UNCHANGED <<ovars, nfaults, sox_process, procs, nspawn, tearing>>

\* reset 93-95: terminate() of a running process.
reset_terminate(th) ==
    /\ spc[th] = "r_term"
    /\ IF sox_process # 0 /\ sox_process \in procs
       THEN /\ tearing' = sox_process
            /\ spc' = [spc EXCEPT ![th] = "r_wait"]
       ELSE /\ spc' = [spc EXCEPT ![th] = "r_init"]
            /\ UNCHANGED tearing
    /\ UNCHANGED <<ovars, nfaults, sox_process, procs, nspawn, sink_lock>>

\* reset 96-101: wait(1.0) returns, or the process is killed.
reset_wait(th) ==
    /\ spc[th] = "r_wait"
    /\ procs' = procs \ {tearing}
    /\ tearing' = 0
    /\ spc' = [spc EXCEPT ![th] = "r_init"]
    /\ UNCHANGED <<ovars, nfaults, sox_process, nspawn, sink_lock>>

\* reset 102: initialize(), still under the lock, which is then released.
reset_initialize(th) ==
    /\ spc[th] = "r_init"
    /\ player_initialize
    /\ spc' = [spc EXCEPT ![th] = "idle"]
    /\ sink_lock' = "none"
    /\ UNCHANGED <<ovars, tearing>>

\* close 107-109: stdin is closed, which asks the process to end.
close_stdin(th) ==
    /\ spc[th] = "c_close"
    /\ IF sox_process # 0
       THEN /\ tearing' = IF sox_process \in procs THEN sox_process ELSE 0
            /\ spc' = [spc EXCEPT ![th] = "c_wait"]
            /\ UNCHANGED sink_lock
       ELSE /\ spc' = [spc EXCEPT ![th] = "idle"]
            /\ sink_lock' = "none"
            /\ UNCHANGED tearing
    /\ UNCHANGED <<ovars, nfaults, sox_process, procs, nspawn>>

\* close 109-120: the process has ended (by itself, terminated or killed),
\* the attribute is None and the lock is released.
close_wait(th) ==
    /\ spc[th] = "c_wait"
    /\ procs' = procs \ {sox_process}
    /\ sox_process' = 0
    /\ tearing' = 0
    /\ spc' = [spc EXCEPT ![th] = "idle"]
    /\ sink_lock' = "none"
    /\ UNCHANGED <<ovars, nfaults, nspawn>>

\* StreamingCallback.on_open 195: the test of the attribute, without the
\* lock.
on_open_check(th) ==
    /\ spc[th] = "o_check"
    /\ spc' = [spc EXCEPT ![th] = IF sox_process = 0 THEN "o_init" ELSE "idle"]
    /\ UNCHANGED <<ovars, nfaults, sox_process, procs, nspawn, sink_lock, tearing>>

\* StreamingCallback.on_open 196: initialize(), without the lock.
on_open_initialize(th) ==
    /\ spc[th] = "o_init"
    /\ player_initialize
    /\ spc' = [spc EXCEPT ![th] = "idle"]
    /\ UNCHANGED <<ovars, sink_lock, tearing>>

\* The process the attribute refers to exits by itself.
sox_process_exit ==
    /\ sox_process \in procs
    /\ tearing = 0
    /\ Fault
    /\ procs' = procs \ {sox_process}
    /\ UNCHANGED <<ovars, sox_process, nspawn, sink_lock, spc, tearing>>

\* ---------------------------------------------------------------- Next
\* The steps of a caller thread that inject no fault.
Call(t) ==
    \/ start_session(t)
    \/ send_text_check(t)
    \/ send_text_call(t)
    \/ streaming_call_first(t)
    \/ start_stream_connect(t)
    \/ start_stream_started(t)
    \/ on_open(t)
    \/ submit_text(t)
    \/ finish_session_check(t)
    \/ streaming_complete_send(t)
    \/ streaming_complete_wait(t)

\* The timeouts of the blocking waits.
Timeout(t) ==
    \/ start_stream_connect_timeout(t)
    \/ start_stream_start_timeout(t)
    \/ streaming_complete_timeout(t)

\* The read thread of object s with a remote that answers every frame.
Read(s) ==
    \/ remote_task_started(s)
    \/ \E n \in FrameLens : remote_binary(s, n)
    \/ on_data(s)
    \/ remote_task_finished(s)
    \/ on_close(s)

\* One caller thread, the interrupting thread, the read threads, and every
\* fault of the transport and of the playback process.
Next ==
    \/ Call("t1")
    \/ Timeout("t1")
    \/ caller_catch("t1")
    \/ \E s \in Sids : Read(s) \/ remote_task_failed(s) \/ ws_error(s)
    \/ interrupt
    \/ sox_exit

Spec == Init /\ [][Next]_vars

\* Two caller threads (a direct caller and the sync-queue worker) and the
\* interrupting thread, with a remote that answers every frame.
NextRace ==
    \/ \E t \in Callers : Call(t) \/ caller_catch(t)
    \/ \E s \in Sids :
          remote_task_started(s) \/ remote_task_finished(s) \/ on_close(s)
    \/ interrupt

SpecRace == Init /\ [][NextRace]_vars

\* One caller thread alone, with a remote that answers every frame.
NextSeq ==
    \/ Call("t1")
    \/ \E s \in Sids : Read(s)
    \/ sox_exit

SpecSeq == InitAny /\ [][NextSeq]_vars

\* One caller thread and the read threads, with every fault of the transport
\* and of the playback process; the caller and the read threads keep
\* running.
NextFail ==
    \/ Call("t1")
    \/ Timeout("t1")
    \/ caller_catch("t1")
    \/ \E s \in Sids : Read(s) \/ remote_task_failed(s) \/ ws_error(s)
    \/ sox_exit

SpecFail ==
    /\ Init
    /\ [][NextFail]_vars
    /\ WF_vars(Call("t1") \/ caller_catch("t1"))
    /\ WF_vars(\E s \in Sids : Read(s))

\* The sync-queue worker (thread "t1"), a thread that calls tts_with_queue,
\* the read threads, the clock, and the timeouts of the worker's waits.
NextSync ==
    \/ \E t \in Callers : tts(t)
    \/ \E timeout \in Timeouts : tts_with_queue_call("t2", timeout)
    \/ tts_with_queue_append("t2")
    \/ sync_consumer_pop
    \/ sync_consumer_attempt
    \/ sync_consumer_result
    \/ Timeout("t1")
    \/ \E s \in Sids :
          remote_task_started(s) \/ remote_task_finished(s) \/ on_close(s)
    \/ tick

SpecSync == Init /\ [][NextSync]_vars

\* The sync path with a thread that calls close() on the player: the
\* worker (thread "t1"), a thread that queues up to MaxTimed texts without
\* a deadline, the read threads and the timeouts of the worker's waits.
NextClose ==
    \/ \E t \in Callers : tts(t)
    \/ (nq < MaxTimed /\ tts_with_queue_call("t2", 0))
    \/ tts_with_queue_append("t2")
    \/ sync_consumer_pop
    \/ sync_consumer_attempt
    \/ sync_consumer_result
    \/ sync_consumer_exit
    \/ Timeout("t1")
    \/ \E s \in Sids :
          remote_task_started(s) \/ remote_task_finished(s) \/ on_close(s)
    \/ close

SpecClose == Init /\ [][NextClose]_vars

\* The async consumer of the loop and a thread that calls tts_with_queue
\* contend for start_session: enqueue_text on the loop (554-567), the
\* consumer task (602-636), tts_with_queue on thread "t2" (492-502), and the
\* reader threads of the sessions it starts.
NextContend ==
    \/ call_enqueue_text("e1")
    \/ queue_lock_acquire("e1")
    \/ start_queue_body("e1")
    \/ enqueue_evict("e1")
    \/ enqueue_put("e1")
    \/ consumer_resume
    \/ consumer_get
    \/ consumer_ttl
    \/ consumer_tts_stream_start
    \/ consumer_tts_stream_end
    \/ consumer_callback
    \/ tts("t2")
    \/ tts_with_queue_call("t2", 0)
    \/ tts_with_queue_append("t2")
    \/ \E s \in Sids :
          remote_task_started(s) \/ remote_task_finished(s) \/ on_close(s)

SpecContend == Init /\ [][NextContend]_vars

\* The coroutines of the event loop that owns the async queue: callers of
\* the queue API, collector tasks and the consumer task; one runs at a time
\* and gives way only where it is suspended.
NextQueue ==
    \/ \E e \in Enqueuers :
          \/ \E n \in QueueSizes : call_start_queue(e, n)
          \/ call_stop_queue(e)
          \/ call_enqueue_text(e)
          \/ \E kind \in {"agen", "gen"} : call_enqueue_text_stream(e, kind)
    \/ \E x \in Tasks :
          \/ resume(x)
          \/ queue_lock_acquire(x)
          \/ start_queue_body(x)
          \/ stop_queue_body(x)
          \/ enqueue_text_stream_branch(x)
          \/ collector_collect(x)
          \/ enqueue_evict(x)
          \/ enqueue_put(x)
    \/ consumer_resume
    \/ consumer_get
    \/ consumer_ttl
    \/ consumer_tts_stream_start
    \/ consumer_tts_stream_end
    \/ consumer_callback
    \/ tick

SpecQueue == Init /\ [][NextQueue]_vars


\* The volume interface alone: set_volume and change_volume with a volume
\* command that succeeds or fails.
NextVolume ==
    \/ \E p \in Percents, ok \in BOOLEAN : set_volume(p, ok)
    \/ \E c \in Changes, ok \in BOOLEAN : change_volume(c, ok)

SpecVolume == Init /\ [][NextVolume]_vars


\* SpeechSynthesizer objects driven directly by two client threads that
\* call streaming_call, streaming_complete, async_streaming_complete and
\* streaming_cancel in any order, with the read threads, the waiter threads
\* and a remote that may fail the task or drop the connection.
\* The first program counter of each method.
Methods == {"sc_first", "cm_call", "ac_call", "cn_call"}

\* The steps of a client thread, and of the threads of object s.
Client(t) ==
    \/ \E s \in Sids, method \in Methods : client_call(t, s, method)
    \/ streaming_call_first(t)
    \/ start_stream_connect(t)
    \/ start_stream_started(t)
    \/ on_open(t)
    \/ submit_text(t)
    \/ streaming_complete(t)
    \/ streaming_complete_wait(t)
    \/ async_streaming_complete(t)
    \/ streaming_cancel(t)
    \/ caller_catch(t)

Remote(s) ==
    \/ waiting_for_complete(s)
    \/ remote_task_started(s)
    \/ remote_task_finished(s)
    \/ remote_task_failed(s)
    \/ on_close(s)
    \/ ws_error(s)

NextTransport ==
    \/ synthesizer_new
    \/ \E t \in Callers : Client(t)
    \/ \E s \in Sids : Remote(s)

\* Threads that wait on an event go on once it is set.
SpecTransport ==
    /\ Init
    /\ [][NextTransport]_vars
    /\ \A t \in Callers :
          WF_vars(streaming_complete_wait(t) \/ start_stream_started(t))
    /\ \A s \in Sids : WF_vars(waiting_for_complete(s))

\* The same with one client thread: every call is made after the previous
\* one has returned.
NextClient ==
    \/ synthesizer_new
    \/ Client("t1")
    \/ \E s \in Sids : Remote(s)

SpecClient == Init /\ [][NextClient]_vars


\* One async cycle and what follows it: thread "t1" runs tts_stream (or
\* start_session, send_text and async_finish_session of its own) as the first
\* user of the player, thread "t2" calls tts() once a session has been
\* created, a third thread calls interrupt(); the read and waiter threads.
NextStream ==
    \/ nsyn = 0 /\ tts_stream_call("t1")
    \/ tts_stream("t1")
    \/ \E wait \in BOOLEAN : async_finish_session_call("t1", wait)
    \/ nsyn >= 1 /\ start_session_call("t2")
    \/ tts("t2")
    \/ interrupt
    \/ \E s \in Sids :
          \/ remote_task_started(s)
          \/ remote_task_finished(s)
          \/ on_close(s)
          \/ waiting_for_complete(s)

SpecStream == Init /\ [][NextStream]_vars

\* The consumer task (602-636) with its cycle followed statement by
\* statement, one coroutine that queues texts, the sync path tts() on thread
\* "t2", the reader threads of the sessions and the player process.
NextHook ==
    \/ (ncalls < MaxItems /\ call_enqueue_text("e1"))
    \/ queue_lock_acquire("e1")
    \/ start_queue_body("e1")
    \/ enqueue_evict("e1")
    \/ enqueue_put("e1")
    \/ consumer_resume
    \/ consumer_get
    \/ consumer_ttl
    \/ consumer_tts_stream_call
    \/ consumer_cycle
    \/ consumer_cycle_sleep
    \/ consumer_cycle_wake
    \/ consumer_tts_stream_return
    \/ consumer_callback
    \/ start_session_call("t2")
    \/ tts("t2")
    \/ sox_exit
    \/ \E s \in Sids :
          \/ remote_task_started(s)
          \/ remote_binary(s, 1)
          \/ on_data(s)
          \/ remote_task_finished(s)
          \/ on_close(s)

SpecHook == Init /\ [][NextHook]_vars

\* enqueue_text_stream (569-600) called by one coroutine, on a queue of
\* either size, with its collector task, the consumer task and a thread
\* that calls interrupt().
NextLive ==
    \/ \E n \in QueueSizes : call_start_queue("e1", n)
    \/ \E kind \in {"agen", "gen"} : call_enqueue_text_stream("e1", kind)
    \/ \E x \in {"e1", "k1"} :
          \/ resume(x)
          \/ queue_lock_acquire(x)
          \/ start_queue_body(x)
          \/ enqueue_text_stream_branch(x)
          \/ collector_collect(x)
          \/ enqueue_evict(x)
          \/ enqueue_put(x)
    \/ consumer_resume
    \/ consumer_get
    \/ consumer_ttl
    \/ consumer_tts_stream_start
    \/ consumer_tts_stream_end
    \/ consumer_callback
    \/ interrupt

SpecLive == Init /\ [][NextLive]_vars

\* The threads that use the AudioPlayer, operation by operation.
NextSink ==
    \/ \E th \in Sinkers :
          \/ \E op \in {"w_lock", "r_lock", "c_lock", "o_check"} :
                sink_call(th, op)
          \/ sink_lock_acquire(th)
          \/ write_audio_check(th)
          \/ write_audio_write(th)
          \/ reset_terminate(th)
          \/ reset_wait(th)
          \/ reset_initialize(th)
          \/ close_stdin(th)
          \/ close_wait(th)
          \/ on_open_check(th)
          \/ on_open_initialize(th)
    \/ sox_process_exit

SpecSink == Init /\ [][NextSink]_vars


\* ================================================================ claims
\* The audio chunks of a sink log (the silence tail <<0, 0>> left out).
AudioOf(seq) == SelectSeq(seq, LAMBDA e : e[1] # 0)

\* No method that writes the two flags is in progress in any thread.
Quiet ==
    /\ \A t \in Callers : pc[t] \notin {"ss_set", "ss_clr", "ss_init"}
    /\ ipc = "idle"
    /\ \A s \in Sids : rd[s].pc = "idle"

\* C1: at most one Session is open at a time: two start_session calls never
\* both return True unless the first Session was finished, closed or
\* interrupted in between (live holds the sessions opened since the flag
\* was last cleared).
C1_SingleSession == Cardinality(live) <= 1

\* C2: once interrupt() has set the interrupt flag, no step writes further
\* audio to the Audio Sink and none appends to the saved-audio buffer.
C2_NoAudioAfterInterrupt ==
    [][interrupt_event =>
          /\ AudioOf(sink') = AudioOf(sink)
          /\ Len(audio_data') <= Len(audio_data)]_vars

\* C3: when interrupt() returns for an active session is_busy() is false,
\* and it becomes true again only in a step of a start_session call that
\* passed its check (the next successful start_session).
C3_NotBusyAfterInterrupt ==
    [][/\ (ipc = "i_clr" /\ ipc' = "idle") => ~is_busy'
       /\ (~is_busy /\ is_busy') =>
              \E t \in Callers : /\ pc[t] \in {"ss_set", "ss_clr"}
                                 /\ pc'[t] # pc[t]]_vars

\* C3 witness: interrupt() has returned for an active session.
C3_Witness == nint = 1 /\ ipc = "idle" /\ interrupt_event /\ ~session_event

\* C4: a start_session call that finds the session-active flag set returns
\* False and changes nothing: both flags, the metrics, the start timestamp,
\* the bound transport session and its fields stay as they were.
C4_RefusedStartChangesNothing ==
    [][\A t \in Callers :
          (pc[t] = "ss_check" /\ pc'[t] # "ss_check" /\ session_event) =>
              /\ pc'[t] = "refused"
              /\ UNCHANGED <<session_event, interrupt_event, metrics,
                             start_time, synthesizer, nsyn, syn>>]_vars

\* C4 witness: a call was refused while another thread's session had
\* already recorded its start timestamp.
C4_Witness ==
    \E t \in Callers : /\ pc[t] = "refused"
                       /\ session_event
                       /\ start_time = "set"
                       /\ synthesizer # 0

\* C5: the session-active flag is true iff a Session exists that has not
\* reached a terminal state (stated for the states in which no method that
\* writes the flag is half way through).
C5_ActiveIffLiveSession ==
    Quiet => (session_event <=> \E s \in 1 .. nsyn : state[s] \notin Terminal)

\* C6: when task-started does not arrive within the start timeout, the
\* first send_text fails with a timeout fault and no Session is left marked
\* active.
C6_TimeoutLeavesNoSession ==
    \A t \in Callers :
        (pc[t] = "raised" /\ fault[t] = "TimeoutError:start") => ~session_event

\* C7: start_session, any number of send_text calls (none included) and
\* finish_session, with a remote that answers, end with the Session
\* Completed and the session-active flag cleared (once finish_session has
\* returned and the read thread has run its callbacks).
C7_SequenceCompletes ==
    (/\ pc["t1"] = "done" /\ synthesizer # 0
     /\ \A s \in Sids : rd[s].pc = "idle") =>
        (state[synthesizer] = "Completed" /\ ~session_event)

\* C8: at the terminal event of a session that ran start_session,
\* send_text and finish_session with no step of interrupt() since its start,
\* the audio-bytes metric equals the sum of the lengths of the binary frames
\* delivered for that session.
C8_AudioBytesEqualFrames ==
    [][\A s \in Sids :
          (/\ state[s] # "Completed" /\ state'[s] = "Completed"
           /\ s = synthesizer
           /\ pc["t1"] = "fs_wait" /\ obj["t1"] = s
           /\ clean) =>
              metrics'.audio_bytes = syn'[s].recv_audio_length]_vars

\* C9: under any interleaving of the enqueuers, the collector tasks and the
\* consumer, the async queue never holds more than its maxsize, no task is
\* ever suspended in the insert, and a task that has done its full check
\* and eviction still holds the event loop and finds room when it inserts.
C9_QueueWithinCapacity ==
    /\ async_queue.made => Len(async_queue.items) <= async_queue.maxsize
    /\ \A x \in Tasks : epc[x] \notin {"put_wait", "put_ready"}
    /\ \A x \in Tasks : epc[x] = "put" => (running = x /\ ~Full(async_queue))

\* C9 witness: an enqueue is between its eviction from a full queue and its
\* insert while a collector task of another call and the consumer task are
\* waiting for their turn.
C9_Witness ==
    \E x \in Tasks, k \in Collectors :
        /\ x # k
        /\ epc[x] = "put" /\ Full([async_queue EXCEPT !.items = snap[x]])
        /\ epc[k] = "k_collect"
        /\ cpc \in {"c_top", "c_get_ready"}

\* C10: an enqueue that found the queue full leaves it holding the items it
\* found without the oldest, in their order, followed by the new item.
C10_EvictsOldestOnly ==
    [][\A x \in Tasks :
          (/\ epc[x] = "put" /\ epc'[x] = "idle"
           /\ Full([async_queue EXCEPT !.items = snap[x]])) =>
              async_queue'.items =
                  Append(Tail(snap[x]),
                         [ts |-> now, id |-> earg[x].id,
                          kind |-> earg[x].kind])]_vars

\* C10 witness: a queue of maxsize 2 is full again after an eviction.
C10_Witness ==
    /\ async_queue.maxsize = 2
    /\ Len(async_queue.items) = 2
    /\ nevict > 0

\* C17: finish_session leaves its wait for the remote task only when the
\* task has completed, or with a timeout fault handed to its caller.
C17_FinishTimeoutSurfaced ==
    [][\A t \in Callers :
          (pc[t] = "fs_wait" /\ pc'[t] # "fs_wait") =>
              \/ syn[obj[t]].complete_event
              \/ pc'[t] = "raised" /\ fault'[t] = "TimeoutError:complete"]_vars

\* C18: a send_text made after interrupt() has returned for the caller's
\* session raises no fault and sends no frame.
C18_SendAfterInterruptIsNoOp ==
    [][\A t \in Callers :
          (/\ pc[t] = "in_session" /\ ~clean /\ ipc = "idle"
           /\ \/ pc'[t] \in {"raised", "st_call"}
              \/ sends'[t] # sends[t]) =>
              /\ pc'[t] = "in_session"
              /\ UNCHANGED <<syn, fault>>]_vars

\* C19: interrupt() never waits and never raises: a call that has passed
\* its check can always take its next step, whatever the other threads and
\* the remote task are doing, and a call that finds no session changes
\* nothing.
C19_InterruptNeverBlocks ==
    /\ ipc # "idle" => ENABLED interrupt
    /\ ipc \in {"idle", "i_cancel", "i_flag", "i_reset", "i_buf", "i_clr"}
    /\ (ipc = "idle" /\ ~session_event) => ~ENABLED <<interrupt>>_vars

\* C19 witness: interrupt() has returned although the transport object was
\* never started, so that streaming_cancel raised InvalidTask.
C19_Witness ==
    /\ nint = 1 /\ ipc = "idle" /\ interrupt_event
    /\ synthesizer # 0 /\ state[synthesizer] = "Idle"

\* C11: an item older than the TTL when the consumer would dispatch it is
\* dropped with no call into the player (flags, timestamp, metrics and
\* transport untouched); an item not older than the TTL is handed to
\* tts_stream, and tts_stream starts a session only for such an item.
C11_StaleItemDropped ==
    [][/\ (cpc = "c_ttl" /\ cpc' # "c_ttl") =>
              IF now - cur.ts > TTL
              THEN cpc' = "c_top" /\ UNCHANGED <<evars, mvars>>
              ELSE cpc' = "c_tts" /\ cur' = cur
       /\ (cpc # "c_tts" /\ cpc' = "c_tts") => cpc = "c_ttl"
       /\ (cpc = "c_tts" /\ cpc' = "c_play") => now - cur.ts <= TTL]_vars

\* C11 witness: the consumer waits for the next item after it dropped one
\* that was older than the TTL.
C11_Witness ==
    cpc = "c_get_wait" /\ cur.id # 0 /\ now - cur.ts > TTL

\* C20: on sessions that complete normally the session-active flag is
\* cleared only by the last statement of the close handler, which is
\* reached only after the accumulated audio was saved (if enabled) and the
\* silence tail was written to the sink; so audio of a later session is in
\* the sink only after that tail, and never before audio of an earlier one.
C20_FlagClearedOnlyByClose ==
    [][/\ (session_event /\ ~session_event') =>
              \E s \in Sids : rd[s].pc = "oc_clr" /\ rd'[s].pc = "idle"
       /\ \A s \in Sids :
              /\ (rd[s].pc # "oc_clr" /\ rd'[s].pc = "oc_clr") =>
                     /\ rd[s].pc = "oc_sil"
                     /\ (enable_audio_playback /\ sox = "alive") =>
                            sink' = Append(sink, <<0, 0>>)
              /\ (rd[s].pc # "oc_sil" /\ rd'[s].pc = "oc_sil") =>
                     /\ rd[s].pc = "oc_save"
                     /\ (save_audio /\ audio_data # <<>>) =>
                            saved_files' = saved_files + 1
       /\ \A i \in 1 .. Len(sink) :
              sink[i][1] = 2 =>
                  /\ \A j \in i .. Len(sink) : sink[j][1] # 1
                  /\ nfaults = 0 => \E j \in 1 .. i : sink[j] = <<0, 0>>]_vars

\* C20 witness: audio of a second session is in the sink, after the silence
\* tail of the first.
C20_Witness ==
    \E i \in 1 .. Len(sink) :
        sink[i][1] = 2 /\ \E j \in 1 .. i : sink[j] = <<0, 0>>

\* C15: every session failure (task-failed, transport error, handshake or
\* completion timeout) is eventually followed by a state in which the
\* session-active flag is cleared.
C15_FailureClosesSession ==
    \A s \in Sids : (state[s] = "Failed") ~> ~session_event

\* The texts that are in the sync queue.
Pending == {sync_queue[k].id : k \in 1 .. Len(sync_queue)}

\* C12: inserting into the sync queue drops nothing: every text queued so
\* far is still pending, in the hands of the worker, played, or was dropped
\* at its own deadline.
C12_InsertionDropsNothing ==
    \A i \in 1 .. nq :
        i \in Pending \/ witem.id = i \/ i \in played \/ i \in expired

\* C13: the worker lets go of a text only when an attempt succeeded or the
\* text's deadline has passed; it goes on retrying until then; only a text
\* with a deadline is ever dropped; and no attempt starts (with its deadline
\* check) after the deadline.
C13_RetriedUntilPlayedOrExpired ==
    [][/\ (witem.id # 0 /\ witem'.id # witem.id) =>
              \/ witem.id \in played'
              \/ /\ witem.id \in expired'
                 /\ witem.timeout # 0
                 /\ now > witem.ts + witem.timeout
       /\ (witem.id # 0 /\ wpc # "dead") => wpc' # "dead"
       /\ (wpc = "check" /\ wpc' = "tts") =>
              ~(witem.timeout # 0 /\ now > witem.ts + witem.timeout)]_vars

\* C14: a fault raised by tts() while the sync worker processes a text is
\* caught: the text is dropped and the worker goes on to the next one.
C14_ConsumerSurvivesFault ==
    [][(wpc = "tts" /\ pc["t1"] = "raised" /\ wpc' # wpc) =>
          (wpc' = "poll" /\ witem' = NoText)]_vars

\* C16: when start_session is refused to the async consumer because the
\* other path holds the session, the text it dequeued is not lost: the
\* consumer keeps it for another attempt, gets the session, or puts the text
\* back into the queue.
C16_LoserNotLost ==
    [][(cpc = "c_tts" /\ session_event /\ cpc' # "c_tts") =>
          \/ cpc' = "c_play"
          \/ \E k \in 1 .. Len(async_queue'.items) :
                async_queue'.items[k].id = cur.id]_vars

\* clamp(x, 5, 35)
Clamp(x) == IF x < 5 THEN 5 ELSE IF x > 35 THEN 35 ELSE x

\* C25 as stated: whatever the current volume v and the change c, after a
\* volume change request the volume is clamp(v + c, 5, 35) and the message
\* returned states that value.
C25_VolumeClamped ==
    vresult.kind # "none" =>
        /\ volume = Clamp(varg.v + varg.c)
        /\ vresult.kind \in {"min", "max", "changed"}
        /\ vresult.value = volume

\* C25 amended: a volume change request whose volume command succeeds leaves
\* the volume at clamp(v + c, 5, 35) and returns a message stating that
\* value; one whose volume command fails leaves the volume as it was and
\* returns the failure message.
C25_VolumeClampedOnSuccess ==
    vresult.kind # "none" =>
        IF vresult.kind = "failed"
        THEN volume = varg.v
        ELSE /\ volume = Clamp(varg.v + varg.c)
             /\ vresult.value = volume
             /\ vresult.kind = (IF varg.v + varg.c < 5 THEN "min"
                                ELSE IF varg.v + varg.c > 35 THEN "max"
                                ELSE "changed")
             /\ vresult.kind = "changed" => vresult.original = varg.v

\* A change of -40 from 20 has given 5 (and +40 from 20 gives 35 likewise).
C25_Witness ==
    /\ varg = [v |-> 20, c |-> -40]
    /\ vresult = [kind |-> "min", value |-> 5, original |-> 0]
    /\ volume = 5

\* C26: the frames sent on one transport session that was not cancelled
\* are one run-task frame first, then continue-task frames, then at most
\* one finish-task frame, with nothing after it.
C26_FrameSequence ==
    \A s \in Sids :
        state[s] # "Cancelled" =>
            \A i \in 1 .. Len(syn[s].sent) :
                /\ syn[s].sent[i] = "run" <=> i = 1
                /\ syn[s].sent[i] = "fin" => i = Len(syn[s].sent)

\* C27: an object marks itself started only when a task-started event was
\* received for it and no task-failed event has ended its task.
C27_StartedOnlyAfterTaskStarted ==
    [][\A s \in Sids :
          (~syn[s].is_started /\ syn'[s].is_started) => rem[s] = "started"]_vars

\* C28: a finish call (either variant) on a session on which a finish was
\* already sent raises InvalidTask and sends no frame.
C28_SecondFinishRejected ==
    [][\A t \in Callers :
          (/\ pc[t] \in {"cm_call", "ac_call"}
           /\ pc'[t] # pc[t]
           /\ state[obj[t]] \in {"Finishing", "Completed"}) =>
              /\ pc'[t] = "raised"
              /\ fault'[t] = "InvalidTask"
              /\ syn'[obj[t]].sent = syn[obj[t]].sent]_vars

\* C29: a cancel call on a session that is Completed, Failed or Cancelled
\* raises InvalidTask and sends no frame.
C29_CancelOfTerminalRejected ==
    [][\A t \in Callers :
          (/\ pc[t] = "cn_call"
           /\ pc'[t] # pc[t]
           /\ state[obj[t]] \in Terminal) =>
              /\ pc'[t] = "raised"
              /\ fault'[t] = "InvalidTask"
              /\ syn'[obj[t]].sent = syn[obj[t]].sent]_vars

\* Threads blocked on an event of object s: callers inside the handshake or
\* the synchronous finish, and waiter threads of the asynchronous finish.
Blocked(s) ==
    \/ syn[s].waiters > 0
    \/ \E t \in Callers : obj[t] = s /\ pc[t] \in {"sc_wait", "fs_wait"}

\* C30: a cancel of a started session appends the finish-task frame, closes
\* the socket in the same call and sets the started and completed events;
\* and once a session is cancelled, every thread blocked on its events is
\* eventually released.
C30_CancelReleasesWaiters ==
    /\ [][\A t \in Callers :
            (/\ pc[t] = "cn_call"
             /\ pc'[t] # pc[t]
             /\ state[obj[t]] \in {"Started", "Streaming", "Finishing"}) =>
                /\ syn'[obj[t]].sent = Append(syn[obj[t]].sent, "fin")
                /\ syn'[obj[t]].ws = "closed"
                /\ syn'[obj[t]].start_event
                /\ syn'[obj[t]].complete_event]_vars
    /\ \A s \in Sids : (state[s] = "Cancelled") ~> ~Blocked(s)

\* A session was cancelled while a caller waits in the synchronous finish.
C30_Witness ==
    \E s \in Sids, t \in Callers :
        /\ state[s] = "Cancelled"
        /\ obj[t] = s /\ pc[t] = "fs_wait"

\* C22: once interrupt() has been called during the async cycle of thread
\* "t1" and has returned, no chunk of that cycle is submitted to any
\* session.
C22_NoChunkAfterInterrupt ==
    [][(pc["t1"] = "sc_submit" /\ pc'["t1"] = "in_session") =>
          ~(nint >= 1 /\ ipc = "idle")]_vars

\* C24: async_finish_session(True) that found the session active returns
\* only when the session-active flag is clear, and async_finish_session(False)
\* that found it active returns from the call that sent the finish-task frame.
C24_AsyncFinishReturns ==
    [][/\ (pc["t1"] \in {"af_call", "af_wait"} /\ pc'["t1"] = "done") =>
              ~session_event'
       /\ (pc["t1"] = "afn_call" /\ pc'["t1"] = "done") =>
              syn'[obj["t1"]].sent = Append(syn[obj["t1"]].sent, "fin")]_vars

\* C23: the post-play hook is invoked after each async cycle with the
\* first-audio latency measured for that cycle (a latency exactly when the
\* cycle's own session measured one), and the invocation always takes the
\* consumer loop back to its top for the next item.
C23_HookGetsCycleLatency ==
    [][(cpc = "c_cb" /\ cpc' # "c_cb") =>
          /\ cpc' = "c_top"
          /\ (metrics.first_audio_delay = "set") =
                (pc["t1"] # "refused" /\ own["t1"] \in lat)]_vars


\* C21: a text sequence is queued directly, as a live sequence, only when
\* the queue is empty and no session is active (the session-active flag is
\* clear) at the test of enqueue_text_stream.
C21_LiveOnlyWhenNoSession ==
    [][\A x \in Tasks :
          (epc[x] = "branch" /\ epc'[x] = "evict") =>
              (Len(async_queue.items) = 0 /\ ~session_event)]_vars

\* C21 (amended): a text sequence is queued directly only when the test of
\* enqueue_text_stream finds the queue empty and the player not busy
\* (session-active flag clear or interrupt flag set); otherwise it is handed
\* to the collector or joined and queued as one text; and a live sequence
\* only ever enters an empty queue.
C21_LiveOnlyWhenNotBusy ==
    [][/\ \A x \in Tasks :
            epc[x] = "branch" /\ epc'[x] # "branch" =>
               IF Len(async_queue.items) = 0 /\ ~is_busy
               THEN epc'[x] = "evict" /\ earg'[x] = earg[x]
               ELSE \/ epc'[CollectorOf(x)] = "k_collect"
                    \/ earg'[x].kind = "str"
       /\ (Len(async_queue'.items) = Len(async_queue.items) + 1
             /\ async_queue'.items[Len(async_queue'.items)].kind # "str") =>
               Len(async_queue.items) = 0]_vars

\* A sequence that arrived during a session is in the queue as one text.
C21_Witness ==
    /\ session_event /\ ~interrupt_event
    /\ async_queue.items # <<>>
    /\ Head(async_queue.items).kind = "str"

\* C31: a session object opens one connection (sends one run-task frame) in
\* its lifetime, and once it is Completed, Failed or Cancelled no step opens
\* a connection or sends a frame for it.
C31_SingleUse ==
    [][\A s \in Sids :
          /\ Cardinality({i \in 1 .. Len(syn'[s].sent) :
                             syn'[s].sent[i] = "run"}) <= 1
          /\ state[s] \in Terminal =>
                /\ syn'[s].sent = syn[s].sent
                /\ syn'[s].ws = "connecting" => syn[s].ws = "connecting"]_vars

\* A callback of cbset was raised for object s before its i-th callback.
Before(s, i, cbset) ==
    \E j \in 1 .. i - 1 : delivered[s][j] \in cbset

\* C32: every on_close of a session comes after an on_complete or on_error
\* of that session, and once the read thread has handled the task-finished
\* or task-failed event, on_complete (or on_error) and then on_close have
\* been raised.
C32_CompleteOrErrorThenClose ==
    \A s \in Sids :
       /\ \A i \in 1 .. Len(delivered[s]) :
             delivered[s][i] = "on_close" =>
                Before(s, i, {"on_complete", "on_error"})
       /\ (rem[s] = "ended" /\ rd[s].pc = "idle") =>
             \E i \in 1 .. Len(delivered[s]) :
                /\ delivered[s][i] = "on_close"
                /\ Before(s, i, IF state[s] = "Completed"
                                THEN {"on_complete"}
                                ELSE {"on_complete", "on_error"})

\* The read thread has handled a task-failed event to its end.
C32_Witness ==
    \E s \in Sids :
       /\ rem[s] = "ended" /\ rd[s].pc = "idle"
       /\ state[s] = "Failed"
       /\ delivered[s][Len(delivered[s])] = "on_close"

\* C33: for each session on_open is raised before any on_data, and on_close
\* is raised at most once and is terminal: no on_data, on_complete, on_error
\* or second on_close of the session follows it.
C33_OpenFirstCloseLast ==
    \A s \in Sids :
       \A i \in 1 .. Len(delivered[s]) :
          /\ delivered[s][i] = "on_data" => Before(s, i, {"on_open"})
          /\ delivered[s][i] \in {"on_data", "on_complete", "on_error",
                                  "on_close"} => ~Before(s, i, {"on_close"})

\* C34: the mutating operations of the AudioPlayer exclude each other, at
\* most one sox process runs and it is the one the player refers to (none is
\* leaked), and no write is made while a process is being torn down.
C34_SinkSerialized ==
    /\ Cardinality({th \in Sinkers : spc[th] \in Inside}) <= 1
    /\ procs \subseteq {sox_process}
    /\ \A th \in Sinkers : spc[th] = "w_write" => tearing = 0

\* C35: whenever no start_session, interrupt or callback is in progress, the
\* interrupt flag is set exactly when interrupt() was called on the current
\* session (the one self.synthesizer refers to); a session that interrupt()
\* was never called on never has the flag set.
C35_FlagIffSessionInterrupted ==
    Quiet => (interrupt_event <=> synthesizer \in asked)

\* C36: a callback of an earlier session's transport (a session older than
\* the one self.synthesizer refers to) never clears the session-active flag
\* and never adds to the metrics, the byte total, the saved audio or the
\* sink of the later session.
C36_NoStaleCallbacks ==
    [][\A s \in Sids :
          (s < synthesizer /\ rd'[s] # rd[s]) =>
             /\ rd[s].pc = "oc_clr" => session_event' = session_event
             /\ rd[s].pc \in {"od_check", "od_stat"} =>
                   /\ metrics' = metrics
                   /\ total_audio_bytes' = total_audio_bytes
             /\ rd[s].pc = "od_save" => audio_data' = audio_data
             /\ rd[s].pc = "od_write" => sink' = sink]_vars

\* C37: texts given to tts_with_queue are dispatched in the order of their
\* submission: the call of a later text gets no session while an earlier
\* text is still in the sync queue, and the worker gets a session only for
\* a text older than every text in the queue.
C37_SubmissionOrder ==
    [][/\ (pc["t2"] = "ss_check" /\ pc'["t2"] = "ss_set") => Pending = {}
       /\ (wpc = "tts" /\ pc["t1"] = "ss_check" /\ pc'["t1"] = "ss_set") =>
              \A i \in Pending : witem.id < i]_vars

\* C38: a cycle of tts_stream in which no chunk was sent (the generator
\* yielded nothing, or only empty chunks) returns from async_finish_session
\* with the session-active flag clear, so that the next start_session is
\* not refused.
C38_EmptyCycleClearsFlag ==
    [][(/\ pc["t1"] \in {"af_check", "af_call", "af_wait"}
        /\ pc'["t1"] = "done"
        /\ sends["t1"] = 0) => ~session_event']_vars

\* C39 (its safety part): once close() has returned, the sync worker is
\* granted no session by start_session, whatever it was doing when close()
\* was called.
C39_NoSessionAfterClose ==
    [][~(/\ clpc = "closed"
         /\ wpc = "tts"
         /\ pc["t1"] = "ss_check"
         /\ pc'["t1"] = "ss_set")]_vars

\* C40: at most one consumer task of the async queue is alive at any time,
\* the player refers to it exactly when it is alive, and items are only ever
\* held by a queue that exists and that a live consumer task reads.
C40_OneConsumerOnCurrentQueue ==
    /\ ntasks <= 1
    /\ (ntasks = 1) <=> (async_queue_task # "None")
    /\ async_queue.items # <<>> =>
          (async_queue.made /\ async_queue_task # "None")

\* An item is queued for the consumer task that start_queue created after
\* a stop_queue had cancelled the first one.
C40_Witness ==
    /\ nstops >= 1
    /\ ntasks = 1
    /\ async_queue.items # <<>>

=============================================================================
